---- MODULE Spec2Model ----
(***************************************************************************)
(* A model of bot-jual: the persistence facade (orders, deposits,          *)
(* balances, api_keys), the settlement webhook ingress, the Gemini key     *)
(* rotator, the per-user dialog turns, the catalog search and the PPOB     *)
(* client with its price list cache.                                       *)
(***************************************************************************)
EXTENDS Integers, Sequences, FiniteSets, TLC

VARIABLES
    orders,      \* table orders: a set of rows
    deposits,    \* table deposits: a set of rows
    nextId,      \* number of row ids handed out so far (randomUUID)
    lastOp,      \* the last facade call and its result
    ppobCreates, \* per order reference, the PPOB create calls made for it
    deliveries,  \* settlement events handed to the processor so far
    advanced,    \* order references found awaiting when a deposit success event was processed
    exchange,    \* the last request served by the webhook handler and its response
    api_keys,    \* table api_keys: a set of rows
    now,         \* the wall clock, in hours
    invokes,     \* rotator invocations started so far
    inv,         \* the rotator invocation in progress, or the last one
    messages,    \* inbound messages dispatched to the processor so far
    turns,       \* the dialog turns that were dispatched and have not finished
    session,     \* per user, the pending confirmation of the session
    confs,       \* every pending confirmation ever created, by id
    invoked,     \* the risky external calls made, with what their turn saw
    minute,      \* the wall clock of the dialog, in minutes
    catalogCall, \* the catalog function being called: its arguments and result
    atl,         \* the PPOB client call being made: its requests and result
    redis,       \* the cache: per key, the value stored
    keysOp,      \* the last call of the api_keys facade and its result
    balanceCall, \* the balance query being answered: its user and result
    userRows,    \* table users: a set of rows
    userOp,      \* the last UpsertUserByWA call and the user it returned
    returnedIds  \* every <<wa_id, id>> an UpsertUserByWA call has returned

settleVars == <<ppobCreates, deliveries, advanced>>
webhookVars == <<exchange>>
rotatorVars == <<api_keys, now, invokes, inv>>
dialogVars == <<messages, turns, session, confs, invoked, minute>>
catalogVars == <<catalogCall>>
atlanticVars == <<atl, redis>>
keysVars == <<keysOp>>
ledgerVars == <<balanceCall>>
usersVars == <<userRows, userOp, returnedIds>>

\* What the facade calls of NextRepo leave alone.
outsideRepo == <<settleVars, webhookVars, rotatorVars, dialogVars, catalogVars,
                atlanticVars, keysVars, ledgerVars, usersVars>>

\* What the settlement steps of NextSettle leave alone, the facade aside.
outsideSettle == <<webhookVars, rotatorVars, dialogVars, catalogVars,
                atlanticVars, keysVars, ledgerVars, usersVars>>

\* What the webhook handler leaves alone.
outsideWebhook == <<orders, deposits, nextId, lastOp, settleVars, rotatorVars, dialogVars,
                    catalogVars, atlanticVars, keysVars, ledgerVars, usersVars>>

\* What the key rotator leaves alone.
outsideRotator == <<orders, deposits, nextId, lastOp, settleVars, webhookVars, dialogVars,
                    catalogVars, atlanticVars, keysVars, ledgerVars, usersVars>>

\* What the dialog turns leave alone.
outsideDialog == <<orders, deposits, nextId, lastOp, settleVars, webhookVars, rotatorVars,
                   catalogVars, atlanticVars, keysVars, ledgerVars, usersVars>>

\* What the catalog functions leave alone.
outsideCatalog == <<orders, deposits, nextId, lastOp, settleVars, webhookVars, rotatorVars,
                    dialogVars, atlanticVars, keysVars, ledgerVars, usersVars>>

\* What the PPOB client leaves alone.
outsideAtlantic == <<orders, deposits, nextId, lastOp, settleVars, webhookVars, rotatorVars,
                     dialogVars, catalogVars, keysVars, ledgerVars, usersVars>>

\* What the calls of the api_keys facade leave alone, the rotator aside.
outsideKeys == <<orders, deposits, nextId, lastOp, settleVars, webhookVars, dialogVars,
                 catalogVars, atlanticVars, invokes, inv, ledgerVars, usersVars>>

\* What the balance query leaves alone, the tables aside.
outsideLedger == <<settleVars, webhookVars, rotatorVars, dialogVars, catalogVars,
                   atlanticVars, keysVars, usersVars>>

\* What UpsertUserByWA leaves alone, the id source aside.
outsideUsers == <<orders, deposits, lastOp, settleVars, webhookVars, rotatorVars, dialogVars,
                  catalogVars, atlanticVars, keysVars, ledgerVars>>

vars == <<orders, deposits, nextId, lastOp, settleVars, webhookVars, rotatorVars,
          dialogVars, catalogVars, atlanticVars, keysVars, ledgerVars, usersVars>>

----------------------------------------------------------------------------
(* Bounds of the model *)

\* Rows ever inserted over both tables.
MaxInserts == 3

\* Settlement events ever delivered to the processor.
MaxDeliveries == 3

\* Rotator invocations ever started.
MaxInvokes == 3

\* The last hour of the clock.
MaxTime == 36

\* Dialog turns ever dispatched.
MaxMessages == 3

\* The last minute of the dialog clock.
MaxMinute == 12

\* Items of the small catalogs handed to the catalog search.
MaxCatalog == 2

\* Keys of one credential sync.
MaxSyncKeys == 2

\* Items of the match lists handed to the amount re-ranking.
MaxMatches == 3

----------------------------------------------------------------------------
(* Values *)

OrderRefs == {"O1", "O2"}
DepositRefs == {"D1"}
\* The deposit references of the settlement runs.
SettleDepositRefs == {"D1", "D2"}
UserIDs == {"u1"}
Amounts == {1000, 2500}

StatusAwaiting == "awaiting_payment"
StatusPending == "pending"
StatusSuccess == "success"
StatusFailed == "failed"
Statuses == {StatusAwaiting, StatusPending, StatusSuccess, StatusFailed}
\* The statuses callers of the facade pass in the runs below.
StatusInputs == {StatusPending, StatusSuccess, StatusFailed}
TerminalStatuses == {StatusSuccess, StatusFailed}

\* A Go map[string]any that may be nil, and an SQL column that may be NULL:
\* the empty sequence is nil / NULL, a one-element sequence holds the value.
Nil == << >>
Some(v) == <<v>>

\* The metadata maps callers pass.
MetadataInputs == {Nil, Some([sn |-> "SN1"])}

ErrNil == "nil"
ErrUnique == "unique_violation"
ErrNotFound == "not_found"

----------------------------------------------------------------------------
(* JSON helpers of the repository *)

\* json.Marshal of a map: a JSON object, here the set of its members.
Marshal(m) == {<<k, m[k]>> : k \in DOMAIN m}

\* json.Unmarshal of a JSON object into a map.
Unmarshal(obj) ==
    [k \in {p[1] : p \in obj} |-> (CHOOSE p \in obj : p[1] = k)[2]]

toJSON(val) == IF val = Nil THEN Nil ELSE Some(Marshal(val[1]))

jsonParam(data) == IF data = Nil THEN Nil ELSE data

fromJSON(data) == IF data = Nil THEN Nil ELSE Some(Unmarshal(data[1]))

\* SQL COALESCE(a, b).
Coalesce(a, b) == IF a # Nil THEN a ELSE b

\* json_extract(metadata, '$.key') = val; NULL never compares equal.
JsonFieldEquals(col, key, val) ==
    /\ col # Nil
    /\ \E p \in col[1] : p[1] = key /\ p[2] = val

----------------------------------------------------------------------------
(* Orders *)

\* InsertOrderRows without the UNIQUE(order_ref) constraint.
InsertOrderNoUnique(tbl, id, order) ==
    [rows |-> tbl \cup {[id |-> id, user_id |-> order.user_id,
                         order_ref |-> order.order_ref, amount |-> order.amount,
                         status |-> order.status,
                         metadata |-> jsonParam(toJSON(order.metadata))]},
     err |-> ErrNil]

\* INSERT INTO orders (...) VALUES (...) under UNIQUE(order_ref).
InsertOrderRows(tbl, id, order) ==
    IF \E r \in tbl : r.order_ref = order.order_ref
    THEN [rows |-> tbl, err |-> ErrUnique]
    ELSE [rows |-> tbl \cup {[id |-> id, user_id |-> order.user_id,
                              order_ref |-> order.order_ref, amount |-> order.amount,
                              status |-> order.status,
                              metadata |-> jsonParam(toJSON(order.metadata))]},
          err |-> ErrNil]

\* UPDATE orders SET status = ?, metadata = COALESCE(?, metadata) WHERE order_ref = ?
\* The result of Exec is not inspected: no matching row is not an error.
UpdateOrderStatusRows(tbl, orderRef, status, metadata) ==
    LET metaParam == jsonParam(toJSON(metadata))
    IN [rows |-> {IF r.order_ref = orderRef
                  THEN [r EXCEPT !.status = status,
                                 !.metadata = Coalesce(metaParam, r.metadata)]
                  ELSE r : r \in tbl},
        err |-> ErrNil]

\* jsonb a || b: NULL when either side is NULL, else b's members over a's.
JsonbConcat(a, b) ==
    IF a = Nil \/ b = Nil
    THEN Nil
    ELSE Some({p \in a[1] : ~\E q \in b[1] : q[1] = p[1]} \cup b[1])

\* Repository (repo.go):
\* UPDATE orders SET status = $2, metadata = metadata || $3 WHERE order_ref = $1
\* and RowsAffected() = 0 is "order not found".
RepositoryUpdateOrderStatusRows(tbl, orderRef, status, metadata) ==
    IF ~\E r \in tbl : r.order_ref = orderRef
    THEN [rows |-> tbl, err |-> ErrNotFound]
    ELSE [rows |-> {IF r.order_ref = orderRef
                    THEN [r EXCEPT !.status = status,
                                   !.metadata = JsonbConcat(r.metadata, toJSON(metadata))]
                    ELSE r : r \in tbl},
          err |-> ErrNil]

\* ListOrdersAwaitingDeposit without the status condition.
ListOrdersOfDeposit(tbl, depositRef) ==
    {r \in tbl : JsonFieldEquals(r.metadata, "deposit_ref", depositRef)}

\* SELECT ... WHERE json_extract(metadata, '$.deposit_ref') = ? AND status = 'awaiting_payment'
ListOrdersAwaitingDeposit(tbl, depositRef) ==
    {r \in tbl : /\ JsonFieldEquals(r.metadata, "deposit_ref", depositRef)
                 /\ r.status = StatusAwaiting}

InsertOrder(order) ==
    /\ nextId < MaxInserts
    /\ LET res == InsertOrderRows(orders, nextId + 1, order)
       IN /\ orders' = res.rows
          /\ lastOp' = [op |-> "InsertOrder", ref |-> order.order_ref,
                        status |-> order.status, err |-> res.err]
    /\ nextId' = nextId + 1
    /\ UNCHANGED <<deposits, outsideRepo>>

UpdateOrderStatus(orderRef, status, metadata) ==
    /\ LET res == UpdateOrderStatusRows(orders, orderRef, status, metadata)
       IN /\ orders' = res.rows
          /\ lastOp' = [op |-> "UpdateOrderStatus", ref |-> orderRef,
                        status |-> status, err |-> res.err]
    /\ UNCHANGED <<deposits, nextId, outsideRepo>>

RepositoryUpdateOrderStatus(orderRef, status, metadata) ==
    /\ LET res == RepositoryUpdateOrderStatusRows(orders, orderRef, status, metadata)
       IN /\ orders' = res.rows
          /\ lastOp' = [op |-> "RepositoryUpdateOrderStatus", ref |-> orderRef,
                        status |-> status, err |-> res.err]
    /\ UNCHANGED <<deposits, nextId, outsideRepo>>

----------------------------------------------------------------------------
(* Deposits *)

InsertDepositRows(tbl, id, dep) ==
    IF \E r \in tbl : r.deposit_ref = dep.deposit_ref
    THEN [rows |-> tbl, err |-> ErrUnique]
    ELSE [rows |-> tbl \cup {[id |-> id, user_id |-> dep.user_id,
                              deposit_ref |-> dep.deposit_ref, amount |-> dep.amount,
                              status |-> dep.status,
                              metadata |-> jsonParam(toJSON(dep.metadata))]},
          err |-> ErrNil]

\* UPDATE deposits SET status = ?, metadata = COALESCE(?, metadata) WHERE deposit_ref = ?
UpdateDepositStatusRows(tbl, ref, status, metadata) ==
    LET metaParam == jsonParam(toJSON(metadata))
    IN [rows |-> {IF r.deposit_ref = ref
                  THEN [r EXCEPT !.status = status,
                                 !.metadata = Coalesce(metaParam, r.metadata)]
                  ELSE r : r \in tbl},
        err |-> ErrNil]

InsertDeposit(dep) ==
    /\ nextId < MaxInserts
    /\ LET res == InsertDepositRows(deposits, nextId + 1, dep)
       IN /\ deposits' = res.rows
          /\ lastOp' = [op |-> "InsertDeposit", ref |-> dep.deposit_ref,
                        status |-> dep.status, err |-> res.err]
    /\ nextId' = nextId + 1
    /\ UNCHANGED <<orders, outsideRepo>>

UpdateDepositStatus(ref, status, metadata) ==
    /\ LET res == UpdateDepositStatusRows(deposits, ref, status, metadata)
       IN /\ deposits' = res.rows
          /\ lastOp' = [op |-> "UpdateDepositStatus", ref |-> ref,
                        status |-> status, err |-> res.err]
    /\ UNCHANGED <<orders, nextId, outsideRepo>>

----------------------------------------------------------------------------
(* Balances *)

StatusProcessing == "processing"

\* table users: the users upserted before the runs.
users == UserIDs \cup {"u2"}

\* The user ids a balance is asked for; "u9" has no row in users.
BalanceUserIDs == users \cup {"u9"}

ErrNoRows == "no_rows"

\* SUM(amount) over rows.
RECURSIVE SumAmount(_)
SumAmount(rows) ==
    IF rows = {}
    THEN 0
    ELSE LET r == CHOOSE x \in rows : TRUE
         IN r.amount + SumAmount(rows \ {r})

\* SUM(CASE WHEN status IN (...) THEN amount ELSE 0 END) ... WHERE user_id = ?
SumWhereStatus(tbl, userID, statuses) ==
    SumAmount({r \in tbl : r.user_id = userID /\ r.status \in statuses})

NoBalance ==
    [UserID |-> "", DepositedConfirmed |-> 0, DepositedPending |-> 0,
     TotalDeposited |-> 0, SpentConfirmed |-> 0, SpentPending |-> 0,
     TotalSpent |-> 0, SaldoConfirmed |-> 0]

\* SQLiteRepository.GetUserBalance: the user lookup, then the sums over
\* deposits and over orders of the user.
GetUserBalanceRow(userTbl, orderTbl, depositTbl, userID) ==
    IF userID \notin userTbl
    THEN [ub |-> NoBalance, err |-> ErrNoRows]
    ELSE LET depConfirmed == SumWhereStatus(depositTbl, userID, {"success"})
             depPending == SumWhereStatus(depositTbl, userID, {"pending", "processing"})
             depTotal == SumAmount({r \in depositTbl : r.user_id = userID})
             spentConfirmed == SumWhereStatus(orderTbl, userID, {"success"})
             spentPending ==
                 SumWhereStatus(orderTbl, userID,
                                {"pending", "processing", "awaiting_payment"})
             spentTotal == SumAmount({r \in orderTbl : r.user_id = userID})
         IN [ub |-> [UserID |-> userID,
                     DepositedConfirmed |-> depConfirmed,
                     DepositedPending |-> depPending,
                     TotalDeposited |-> depTotal,
                     SpentConfirmed |-> spentConfirmed,
                     SpentPending |-> spentPending,
                     TotalSpent |-> spentTotal,
                     SaldoConfirmed |-> depConfirmed - spentConfirmed],
             err |-> ErrNil]

NoBalanceCall == [op |-> "none", userID |-> "", ub |-> NoBalance, err |-> ErrNil]

GetUserBalance(userID) ==
    /\ balanceCall = NoBalanceCall
    /\ LET res == GetUserBalanceRow(users, orders, deposits, userID)
       IN balanceCall' = [op |-> "GetUserBalance", userID |-> userID,
                          ub |-> res.ub, err |-> res.err]
    /\ UNCHANGED <<orders, deposits, nextId, lastOp, outsideLedger>>

\* The caller takes the balance; the tables may change again.
ReturnUserBalance ==
    /\ balanceCall # NoBalanceCall
    /\ balanceCall' = NoBalanceCall
    /\ UNCHANGED <<orders, deposits, nextId, lastOp, outsideLedger>>

----------------------------------------------------------------------------
(* Users *)

DefaultLanguage == "id-ID"
DefaultTimezone == "Asia/Jakarta"

\* INSERT INTO users (...) VALUES (...): the row proposed for insertion,
\* which ON CONFLICT calls excluded; the defaults are already in it.
ProposedUserRow(id, profile) ==
    [id |-> id, wa_id |-> profile.WAID, wa_jid |-> profile.WAJID,
     display_name |-> profile.DisplayName,
     phone_number |-> profile.PhoneNumber,
     language_preference |-> Coalesce(profile.LanguagePreference, Some(DefaultLanguage)),
     timezone |-> Coalesce(profile.Timezone, Some(DefaultTimezone))]

\* UpsertUserRows without ON CONFLICT (wa_id) and without UNIQUE(wa_id).
UpsertUserRowsNoConflict(tbl, id, profile) ==
    LET excluded == ProposedUserRow(id, profile)
    IN [rows |-> tbl \cup {excluded}, user |-> excluded, err |-> ErrNil]

\* INSERT ... ON CONFLICT (wa_id) DO UPDATE SET ... RETURNING ...
UpsertUserRows(tbl, id, profile) ==
    LET excluded == ProposedUserRow(id, profile)
    IN IF \E r \in tbl : r.wa_id = profile.WAID
       THEN LET old == CHOOSE r \in tbl : r.wa_id = profile.WAID
                new == [old EXCEPT
                           !.wa_jid = excluded.wa_jid,
                           !.display_name = Coalesce(excluded.display_name, old.display_name),
                           !.phone_number = Coalesce(excluded.phone_number, old.phone_number),
                           !.language_preference =
                               Coalesce(excluded.language_preference, old.language_preference),
                           !.timezone = Coalesce(excluded.timezone, old.timezone)]
            IN [rows |-> (tbl \ {old}) \cup {new}, user |-> new, err |-> ErrNil]
       ELSE [rows |-> tbl \cup {excluded}, user |-> excluded, err |-> ErrNil]

NoUser ==
    [id |-> 0, wa_id |-> "", wa_jid |-> Nil, display_name |-> Nil, phone_number |-> Nil,
     language_preference |-> Nil, timezone |-> Nil]

NoUserProfile ==
    [WAID |-> "", WAJID |-> Nil, DisplayName |-> Nil, PhoneNumber |-> Nil,
     LanguagePreference |-> Nil, Timezone |-> Nil]

NoUserOp == [op |-> "none", profile |-> NoUserProfile, user |-> NoUser, err |-> ErrNil]

\* SQLiteRepository.UpsertUserByWA: id := randomUUID() on every call.
UpsertUserByWA(profile) ==
    /\ nextId < MaxInserts
    /\ LET res == UpsertUserRows(userRows, nextId + 1, profile)
       IN /\ userRows' = res.rows
          /\ userOp' = [op |-> "UpsertUserByWA", profile |-> profile,
                        user |-> res.user, err |-> res.err]
          /\ returnedIds' = returnedIds \cup {<<res.user.wa_id, res.user.id>>}
    /\ nextId' = nextId + 1
    /\ UNCHANGED outsideUsers

\* Repository.UpsertUserByWA: the id is the column default of the proposed row.
RepositoryUpsertUserByWA(profile) ==
    /\ nextId < MaxInserts
    /\ LET res == UpsertUserRows(userRows, nextId + 1, profile)
       IN /\ userRows' = res.rows
          /\ userOp' = [op |-> "RepositoryUpsertUserByWA", profile |-> profile,
                        user |-> res.user, err |-> res.err]
          /\ returnedIds' = returnedIds \cup {<<res.user.wa_id, res.user.id>>}
    /\ nextId' = nextId + 1
    /\ UNCHANGED outsideUsers

----------------------------------------------------------------------------
(* The settlement webhook handler *)

\* The credentials a sender may put into Basic auth.
Credentials == {"atlantic", "s3cret", "guest"}

\* md5Hex over the credentials: the lowercase hex digest.
md5Hex(val) ==
    CASE val = "atlantic" -> "8a65294220bfdfe913bd813878d670b7"
      [] val = "s3cret" -> "33e1b232a4e6fa0028a6670753749a17"
      [] val = "guest" -> "084e0343a0486ff05530df6c705c8bb4"

\* The values a signature header may carry; "" is an absent header.
SignatureValues ==
    {"",
     "8a65294220bfdfe913bd813878d670b7",
     "8A65294220BFDFE913BD813878D670B7",
     " 33e1b232a4e6fa0028a6670753749a17 ",
     "084e0343a0486ff05530df6c705c8bb4"}

\* strings.TrimSpace over the values above.
TrimSpace(s) ==
    IF s = " 33e1b232a4e6fa0028a6670753749a17 "
    THEN "33e1b232a4e6fa0028a6670753749a17"
    ELSE s

\* strings.ToLower over the values above.
ToLower(s) ==
    IF s = "8A65294220BFDFE913BD813878D670B7"
    THEN "8a65294220bfdfe913bd813878d670b7"
    ELSE s

\* The configured digests, as the operator wrote them.
ConfigUsernameMD5 == "8A65294220BFDFE913BD813878D670B7"
ConfigPasswordMD5 == "33e1b232a4e6fa0028a6670753749a17"

\* NewWebhookHandler: the fields of the handler.
usernameMD5 == ToLower(ConfigUsernameMD5)
passwordMD5 == ToLower(ConfigPasswordMD5)
\* main always hands the handler a processor.
processorSet == TRUE

\* r.BasicAuth(): Nil when the request carries no (well-formed) Basic
\* Authorization header.
BasicAuthInputs == {Nil} \cup {Some([username |-> u, password |-> p]) :
                                   u \in Credentials, p \in Credentials}

\* A request: bodyReadable is whether io.ReadAll of its body succeeds,
\* processorFails is whether HandleAtlanticEvent returns an error for it.
Requests ==
    [method : {"POST", "GET"}, basic : BasicAuthInputs,
     xAtlSignature : SignatureValues,
     xAtlanticSignature : {"", "8A65294220BFDFE913BD813878D670B7"},
     xSignature : {"", " 33e1b232a4e6fa0028a6670753749a17 ",
                   "084e0343a0486ff05530df6c705c8bb4"},
     bodyReadable : BOOLEAN, processorFails : BOOLEAN]

NoRequest ==
    [method |-> "", basic |-> Nil, xAtlSignature |-> "", xAtlanticSignature |-> "",
     xSignature |-> "", bodyReadable |-> TRUE, processorFails |-> FALSE]

NoResponse == [code |-> 0, body |-> "", metric |-> "", processorCalls |-> 0]

validateSignatureHeader(r) ==
    LET s1 == TrimSpace(r.xAtlSignature)
        s2 == IF s1 = "" THEN TrimSpace(r.xAtlanticSignature) ELSE s1
        s3 == IF s2 = "" THEN TrimSpace(r.xSignature) ELSE s2
    IN IF s3 = ""
       THEN FALSE
       ELSE ToLower(s3) = usernameMD5 \/ ToLower(s3) = passwordMD5

\* validateAuth where a valid signature header also admits a request whose
\* Basic credentials do not match.
validateAuthEitherScheme(r) ==
    IF validateSignatureHeader(r)
    THEN ErrNil
    ELSE IF r.basic = Nil
         THEN "missing basic auth"
         ELSE IF md5Hex(r.basic[1].username) # usernameMD5
              THEN "invalid username hash"
              ELSE IF md5Hex(r.basic[1].password) # passwordMD5
                   THEN "invalid password hash"
                   ELSE ErrNil

validateAuth(r) ==
    IF r.basic = Nil
    THEN IF validateSignatureHeader(r) THEN ErrNil ELSE "missing basic auth"
    ELSE IF md5Hex(r.basic[1].username) # usernameMD5
         THEN "invalid username hash"
         ELSE IF md5Hex(r.basic[1].password) # passwordMD5
              THEN "invalid password hash"
              ELSE ErrNil

\* ServeHTTP that hands the event to the processor before it reads the body.
ServeHTTPResponseProcessFirst(r) ==
    IF r.method # "POST"
    THEN [code |-> 405, body |-> "method not allowed", metric |-> "",
          processorCalls |-> 0]
    ELSE IF validateAuth(r) # ErrNil
    THEN [code |-> 401, body |-> "unauthorized", metric |-> "atlantic_webhook_auth",
          processorCalls |-> 0]
    ELSE IF processorSet /\ r.processorFails
    THEN [code |-> 500, body |-> "failed to process",
          metric |-> "atlantic_webhook_process", processorCalls |-> 1]
    ELSE IF ~r.bodyReadable
    THEN [code |-> 400, body |-> "failed to read body", metric |-> "atlantic_webhook",
          processorCalls |-> IF processorSet THEN 1 ELSE 0]
    ELSE [code |-> 200, body |-> "{\"status\":\"ok\"}", metric |-> "",
          processorCalls |-> IF processorSet THEN 1 ELSE 0]

\* What ServeHTTP writes for request r, and how often it calls the processor.
ServeHTTPResponse(r) ==
    IF r.method # "POST"
    THEN [code |-> 405, body |-> "method not allowed", metric |-> "",
          processorCalls |-> 0]
    ELSE IF validateAuth(r) # ErrNil
    THEN [code |-> 401, body |-> "unauthorized", metric |-> "atlantic_webhook_auth",
          processorCalls |-> 0]
    ELSE IF ~r.bodyReadable
    THEN [code |-> 400, body |-> "failed to read body", metric |-> "atlantic_webhook",
          processorCalls |-> 0]
    ELSE IF processorSet /\ r.processorFails
    THEN [code |-> 500, body |-> "failed to process",
          metric |-> "atlantic_webhook_process", processorCalls |-> 1]
    ELSE [code |-> 200, body |-> "{\"status\":\"ok\"}", metric |-> "",
          processorCalls |-> IF processorSet THEN 1 ELSE 0]

ServeHTTP(r) ==
    /\ exchange' = [req |-> r, resp |-> ServeHTTPResponse(r)]
    /\ UNCHANGED outsideWebhook

----------------------------------------------------------------------------
(* API keys and the Gemini key rotator *)

\* GEMINI_KEYS, in priority order.
GeminiAPIKeys == <<"key1", "key2">>

\* GEMINI_COOLDOWN_HOURS, the 24*time.Hour of withGemini.
CooldownHours == 24

\* The steps the clock advances by.
TickHours == {12, CooldownHours}

\* What fn(client) may return for a key.
FnOutcomes == {"ok", "quota", "transient", "other"}

\* upsertAPIKey: INSERT ... ON CONFLICT (provider, value) DO UPDATE SET
\* priority = excluded.priority, cooldown_until = NULL
upsertAPIKey(tbl, value, priority) ==
    IF \E k \in tbl : k.value = value
    THEN {IF k.value = value
          THEN [k EXCEPT !.priority = priority, !.cooldown_until = Nil]
          ELSE k : k \in tbl}
    ELSE tbl \cup {[id |-> value, value |-> value, priority |-> priority,
                    cooldown_until |-> Nil]}

\* SyncGeminiKeys: the keys are upserted in order with priority = index.
RECURSIVE SyncGeminiKeysFrom(_, _, _)
SyncGeminiKeysFrom(tbl, keys, idx) ==
    IF idx > Len(keys)
    THEN tbl
    ELSE SyncGeminiKeysFrom(upsertAPIKey(tbl, keys[idx], idx - 1), keys, idx + 1)

SyncGeminiKeys(tbl, keys) == SyncGeminiKeysFrom(tbl, keys, 1)

\* SELECT ... FROM api_keys WHERE provider = ? ORDER BY priority ASC
\* Rows in cooldown are returned as well.
ListActiveGeminiKeys(tbl) ==
    CHOOSE s \in [1..Cardinality(tbl) -> tbl] :
        /\ \A i, j \in 1..Cardinality(tbl) : i # j => s[i] # s[j]
        /\ \A i, j \in 1..Cardinality(tbl) : i < j => s[i].priority <= s[j].priority

\* SetCooldownUntil whose WHERE clause matches no row.
SetCooldownUntilNoRow(tbl, id, until) ==
    [rows |-> tbl, err |-> ErrNotFound]

\* UPDATE api_keys SET cooldown_until = ? WHERE id = ?
\* RowsAffected() = 0 is "api key not found".
SetCooldownUntilRows(tbl, id, until) ==
    IF ~\E k \in tbl : k.id = id
    THEN [rows |-> tbl, err |-> ErrNotFound]
    ELSE [rows |-> {IF k.id = id THEN [k EXCEPT !.cooldown_until = Some(until)]
                    ELSE k : k \in tbl},
          err |-> ErrNil]

\* k.CooldownUntil != nil && time.Now().Before(*k.CooldownUntil)
InCooldown(k, t) == k.cooldown_until # Nil /\ t < k.cooldown_until[1]

IdleInvocation ==
    [pc |-> "idle", keys |-> << >>, i |-> 1, lastErr |-> ErrNil, result |-> ErrNil,
     inUse |-> {}, log |-> << >>, poolAtStart |-> {}, startedAt |-> 0]

\* withGemini is entered: keys := repo.ListActiveKeysOrderedByPriority()
Invoke ==
    /\ inv.pc = "idle"
    /\ invokes < MaxInvokes
    /\ invokes' = invokes + 1
    /\ inv' = [IdleInvocation EXCEPT !.pc = "loop",
                                     !.keys = ListActiveGeminiKeys(api_keys),
                                     !.poolAtStart = api_keys,
                                     !.startedAt = now]
    /\ UNCHANGED <<api_keys, now, outsideRotator>>

\* The head of the for loop: past the last key withGemini returns lastErr, a
\* key in cooldown is skipped, any other key is handed to fn.
LoopStep ==
    /\ inv.pc = "loop"
    /\ inv' = IF inv.i > Len(inv.keys)
              THEN [inv EXCEPT !.pc = "done", !.result = inv.lastErr]
              ELSE IF InCooldown(inv.keys[inv.i], now)
                   THEN [inv EXCEPT !.i = inv.i + 1]
                   ELSE [inv EXCEPT !.pc = "calling",
                                    !.inUse = inv.inUse \cup {inv.keys[inv.i].id}]
    /\ UNCHANGED <<api_keys, now, invokes, outsideRotator>>

\* fn(c) returns: nil ends withGemini with nil; a quota error cools the key
\* down until now + 24h; every error becomes lastErr and the loop goes on.
FnReturns(outcome) ==
    /\ inv.pc = "calling"
    /\ LET k == inv.keys[inv.i]
           entry == [key |-> k.id, priority |-> k.priority, outcome |-> outcome,
                     at |-> now]
       IN /\ inv' = IF outcome = "ok"
                    THEN [inv EXCEPT !.pc = "done", !.result = ErrNil,
                                     !.inUse = inv.inUse \ {k.id},
                                     !.log = Append(inv.log, entry)]
                    ELSE [inv EXCEPT !.pc = "loop", !.lastErr = outcome,
                                     !.i = inv.i + 1,
                                     !.inUse = inv.inUse \ {k.id},
                                     !.log = Append(inv.log, entry)]
          /\ api_keys' = IF outcome = "quota"
                         THEN SetCooldownUntilRows(api_keys, k.id, now + CooldownHours).rows
                         ELSE api_keys
    /\ UNCHANGED <<now, invokes, outsideRotator>>

\* The caller has taken the result.
InvokeReturns ==
    /\ inv.pc = "done"
    /\ invokes < MaxInvokes
    /\ inv' = [inv EXCEPT !.pc = "idle"]
    /\ UNCHANGED <<api_keys, now, invokes, outsideRotator>>

Tick(d) ==
    /\ now + d <= MaxTime
    /\ now' = now + d
    /\ UNCHANGED <<api_keys, invokes, inv, outsideRotator>>

----------------------------------------------------------------------------
(* Dialog turns *)

Senders == {"u1", "u2"}

ConfirmTokens == {"ya", "iya", "oke", "ok", "lanjut", "confirm", "yes"}
DenyTokens == {"tidak", "batal", "cancel", "no"}

\* The texts of the inbound messages.
Utterances == {"ya", "batal", "pulsa tsel 20k"}

\* evt.Message: nil, or a message with its text.
MessageInputs == {Nil} \cup {Some(x) : x \in Utterances}

RiskyActions == {"create_prepaid", "create_deposit"}
Intents == RiskyActions \cup {"price_lookup"}

\* A pending confirmation expires after 10 minutes.
ConfirmTTL == 10

\* The steps the dialog clock advances by.
TickMinutes == {6}

\* SetMessageProcessor: main registers the engine as the processor.
messageProcessorSet == TRUE

\* handleMessage: a nil message is dropped; otherwise
\* go c.processor.ProcessMessage(context.Background(), evt)
\* starts a goroutine of its own for the message and returns.
handleMessage(sender, msg) ==
    /\ messages < MaxMessages
    /\ IF msg = Nil \/ ~messageProcessorSet
       THEN UNCHANGED <<messages, turns>>
       ELSE /\ messages' = messages + 1
            /\ turns' = turns \cup {[seq |-> messages + 1, user |-> sender,
                                      utterance |-> msg[1], pc |-> "spawned",
                                      conf |-> 0, seen |-> Nil, decidedAt |-> 0]}
    /\ UNCHANGED <<session, confs, invoked, minute, outsideDialog>>

\* Expired that never holds.
NeverExpired(conf, t) == FALSE

\* A pending confirmation created at conf.createdAt is expired at time t.
Expired(conf, t) == t - conf.createdAt > ConfirmTTL

SetFate(cs, id, fate) == [cs EXCEPT ![id].fate = fate]

\* Step 1 of a turn: the goroutine runs, resolves the user and appends the
\* inbound message.
BeginTurn(t) ==
    /\ t.pc = "spawned"
    /\ turns' = (turns \ {t}) \cup {[t EXCEPT !.pc = "confirm"]}
    /\ UNCHANGED <<messages, session, confs, invoked, minute, outsideDialog>>

\* Step 2 of a turn: with a pending confirmation in the session and a
\* confirm or deny token as utterance, the pending action is executed or
\* discarded; an expired one is discarded and not executed; otherwise the
\* turn falls through to the model call.
ConfirmStep(t) ==
    /\ t.pc = "confirm"
    /\ LET pending == session[t.user]
           isToken == t.utterance \in ConfirmTokens \cup DenyTokens
       IN IF pending = Nil \/ ~isToken
          THEN /\ turns' = (turns \ {t}) \cup {[t EXCEPT !.pc = "dispatch"]}
               /\ UNCHANGED <<session, confs>>
          ELSE IF Expired(confs[pending[1]], minute)
          THEN /\ turns' = (turns \ {t}) \cup {[t EXCEPT !.pc = "dispatch"]}
               /\ session' = [session EXCEPT ![t.user] = Nil]
               /\ confs' = SetFate(confs, pending[1], "expired")
          ELSE IF t.utterance \in ConfirmTokens
          THEN /\ turns' = (turns \ {t}) \cup
                              {[t EXCEPT !.pc = "external", !.conf = pending[1],
                                         !.seen = Some(confs[pending[1]]),
                                         !.decidedAt = minute]}
               /\ session' = [session EXCEPT ![t.user] = Nil]
               /\ confs' = SetFate(confs, pending[1], "confirmed")
          ELSE /\ turns' = turns \ {t}
               /\ session' = [session EXCEPT ![t.user] = Nil]
               /\ confs' = SetFate(confs, pending[1], "denied")
    /\ UNCHANGED <<messages, invoked, minute, outsideDialog>>

\* The confirmed action is invoked upstream and the turn replies.
ExternalCall(t) ==
    /\ t.pc = "external"
    /\ invoked' = invoked \cup {[user |-> t.user,
                                 utterance |-> t.utterance,
                                 action |-> confs[t.conf].action, conf |-> t.conf,
                                 seen |-> t.seen, decidedAt |-> t.decidedAt]}
    /\ turns' = turns \ {t}
    /\ UNCHANGED <<messages, session, confs, minute, outsideDialog>>

\* Steps 3 to 5 of a turn: the model returns an intent; the handler of a
\* risky intent sets a pending confirmation that describes the action, a
\* confident other intent drops the pending one, and the turn replies.
Dispatch(t, intent, confident) ==
    /\ t.pc = "dispatch"
    /\ turns' = turns \ {t}
    /\ LET pending == session[t.user]
           dropped == IF pending = Nil THEN confs
                      ELSE SetFate(confs, pending[1], "superseded")
       IN IF ~confident
          THEN UNCHANGED <<session, confs>>
          ELSE IF intent \in RiskyActions
          THEN /\ confs' = Append(dropped, [user |-> t.user, action |-> intent,
                                            createdAt |-> minute, fate |-> "pending"])
               /\ session' = [session EXCEPT ![t.user] = Some(Len(confs) + 1)]
          ELSE /\ confs' = dropped
               /\ session' = [session EXCEPT ![t.user] = Nil]
    /\ UNCHANGED <<messages, invoked, minute, outsideDialog>>

\* Time passes; it is only ever read against a pending confirmation, so it
\* is let pass only while some session holds one.
TickMinute(d) ==
    /\ minute + d <= MaxMinute
    /\ \E u \in Senders : session[u] # Nil
    /\ minute' = minute + d
    /\ UNCHANGED <<messages, turns, session, confs, invoked, outsideDialog>>

----------------------------------------------------------------------------
(* Text: the functions of package strings the program uses, over strings *)

\* s[a-1 : b] of Go, "" when the range is empty or outside s.
Slice(s, a, b) == IF a >= 1 /\ a <= b /\ b <= Len(s) THEN SubSeq(s, a, b) ELSE ""

Char(s, i) == Slice(s, i, i)

DigitChars == {"0", "1", "2", "3", "4", "5", "6", "7", "8", "9"}
UpperLetters == "ABCDEFGHIJKLMNOPQRSTUVWXYZ"
LowerLetters == "abcdefghijklmnopqrstuvwxyz"
LowerChars == {Char(LowerLetters, i) : i \in 1..Len(LowerLetters)}
SpaceChars == {" ", "\t", "\n"}

UpperChars == {Char(UpperLetters, i) : i \in 1..Len(UpperLetters)}
LowerOf ==
    [c \in UpperChars |->
        Char(LowerLetters, CHOOSE i \in 1..Len(UpperLetters) : Char(UpperLetters, i) = c)]

LowerChar(c) == IF c \in UpperChars THEN LowerOf[c] ELSE c

\* strings.ToLower
RECURSIVE ToLowerText(_)
ToLowerText(s) ==
    IF Len(s) = 0 THEN ""
    ELSE LowerChar(Char(s, 1)) \o ToLowerText(Slice(s, 2, Len(s)))

\* strings.TrimSpace
RECURSIVE TrimSpaceText(_)
TrimSpaceText(s) ==
    IF Len(s) = 0 THEN ""
    ELSE IF Char(s, 1) \in SpaceChars THEN TrimSpaceText(Slice(s, 2, Len(s)))
    ELSE IF Char(s, Len(s)) \in SpaceChars THEN TrimSpaceText(Slice(s, 1, Len(s) - 1))
    ELSE s

\* strings.Contains
Contains(s, sub) ==
    \/ sub = ""
    \/ \E i \in 1..(Len(s) - Len(sub) + 1) : Slice(s, i, i + Len(sub) - 1) = sub

\* strings.ContainsAny
ContainsAny(s, chars) == \E i \in 1..Len(s) : Char(s, i) \in chars

\* strings.EqualFold
EqualFold(a, b) == ToLowerText(a) = ToLowerText(b)

\* strings.ReplaceAll for a one-character old.
RECURSIVE ReplaceAll(_, _, _)
ReplaceAll(s, old, new) ==
    IF Len(s) = 0 THEN ""
    ELSE (IF Char(s, 1) = old THEN new ELSE Char(s, 1))
            \o ReplaceAll(Slice(s, 2, Len(s)), old, new)

\* strings.Fields: the maximal runs of non-space characters, in order.
RECURSIVE FieldsFrom(_, _)
FieldsFrom(s, word) ==
    IF Len(s) = 0
    THEN IF word = "" THEN << >> ELSE <<word>>
    ELSE IF Char(s, 1) \in SpaceChars
         THEN (IF word = "" THEN << >> ELSE <<word>>)
                 \o FieldsFrom(Slice(s, 2, Len(s)), "")
         ELSE FieldsFrom(Slice(s, 2, Len(s)), word \o Char(s, 1))

Fields(s) == FieldsFrom(s, "")

\* The digits of s, in order.
RECURSIVE DigitsOf(_)
DigitsOf(s) ==
    IF Len(s) = 0 THEN ""
    ELSE (IF Char(s, 1) \in DigitChars THEN Char(s, 1) ELSE "")
            \o DigitsOf(Slice(s, 2, Len(s)))

DigitValue(c) ==
    CASE c = "0" -> 0 [] c = "1" -> 1 [] c = "2" -> 2 [] c = "3" -> 3 [] c = "4" -> 4
      [] c = "5" -> 5 [] c = "6" -> 6 [] c = "7" -> 7 [] c = "8" -> 8 [] c = "9" -> 9

\* strconv.ParseInt(s, 10, 64) of a string of digits.
RECURSIVE ParseInt(_)
ParseInt(s) ==
    IF Len(s) = 0 THEN 0
    ELSE ParseInt(Slice(s, 1, Len(s) - 1)) * 10 + DigitValue(Char(s, Len(s)))

----------------------------------------------------------------------------
(* Catalog search: filterByQuery, filterByBudget, parseAmount *)

\* The characters of the texts below in byte order, for string comparison.
ByteOrder == " ,.0123456789ABCDEFGHIJKLMNOPQRSTUVWXYZabcdefghijklmnopqrstuvwxyz"

CharRank(c) == CHOOSE i \in 1..Len(ByteOrder) : Char(ByteOrder, i) = c

\* Go's a < b on strings.
RECURSIVE StringLess(_, _)
StringLess(a, b) ==
    IF Len(b) = 0 THEN FALSE
    ELSE IF Len(a) = 0 THEN TRUE
    ELSE IF Char(a, 1) = Char(b, 1)
         THEN StringLess(Slice(a, 2, Len(a)), Slice(b, 2, Len(b)))
         ELSE CharRank(Char(a, 1)) < CharRank(Char(b, 1))

\* The orders sort.Slice may leave the elements at positions idx of seq in,
\* less being the pairs of positions whose elements the less function
\* orders: any element that no other is less than may come first, and so on.
RECURSIVE SortSliceOf(_, _, _)
SortSliceOf(seq, idx, less) ==
    IF idx = {} THEN {<< >>}
    ELSE UNION {{<<seq[m]>> \o rest : rest \in SortSliceOf(seq, idx \ {m}, less)} :
                   m \in {x \in idx : \A y \in idx : <<y, x>> \notin less}}

SortSlice(seq, Less(_, _)) ==
    SortSliceOf(seq, DOMAIN seq,
                {p \in (DOMAIN seq) \X (DOMAIN seq) : Less(seq[p[1]], seq[p[2]])})

\* sort.SliceStable: of the elements that may come first, the one that was
\* first before.
RECURSIVE SortSliceStableOf(_, _, _)
SortSliceStableOf(seq, idx, less) ==
    IF idx = {} THEN << >>
    ELSE LET firsts == {x \in idx : \A y \in idx : <<y, x>> \notin less}
             m == CHOOSE x \in firsts : \A y \in firsts : x <= y
         IN <<seq[m]>> \o SortSliceStableOf(seq, idx \ {m}, less)

SortSliceStable(seq, Less(_, _)) ==
    SortSliceStableOf(seq, DOMAIN seq,
                      {p \in (DOMAIN seq) \X (DOMAIN seq) : Less(seq[p[1]], seq[p[2]])})

topN(items, n) == IF Len(items) <= n THEN items ELSE SubSeq(items, 1, n)

stopWords ==
    {"yang", "dan", "di", "ke", "dari", "ada", "ini", "itu", "untuk", "dengan",
     "saya", "mau", "bisa", "jual", "cari", "halo", "hai", "hi", "hey", "bang",
     "mas", "kak", "min", "gan", "bro", "tolong", "dong", "ya", "nih", "deh",
     "list", "harga", "kirim", "kirimkan", "dibawah", "diatas", "sekitar",
     "the", "is", "a", "an", "of", "ribu", "rb", "juta", "jt"}

NotStopWord(t) == t \notin stopWords

filterStopWords(tokens) == SelectSeq(tokens, NotStopWord)

\* tokenizeQuery: the fields of the query with . and , turned into spaces;
\* a field that mixes digits and letters is followed by its digits.
RECURSIVE expandTokens(_)
expandTokens(rawTokens) ==
    IF rawTokens = << >> THEN << >>
    ELSE LET token == TrimSpaceText(ToLowerText(Head(rawTokens)))
         IN (IF token = "" THEN << >>
             ELSE IF ContainsAny(token, DigitChars) /\ ContainsAny(token, LowerChars)
                  THEN <<token, DigitsOf(token)>>
                  ELSE <<token>>)
               \o expandTokens(Tail(rawTokens))

tokenizeQuery(query) ==
    IF query = "" THEN << >>
    ELSE expandTokens(Fields(ReplaceAll(ReplaceAll(query, ".", " "), ",", " ")))

\* The tokens matchScore counts: the tokens without stop words, or all of
\* them when nothing else is left.
significantTokens(tokens) ==
    IF Len(filterStopWords(tokens)) = 0 THEN tokens ELSE filterStopWords(tokens)

tokenScore(item, token) ==
    (IF Contains(ToLowerText(item.Name), token) THEN 4 ELSE 0)
    + (IF Contains(ToLowerText(item.Code), token) THEN 5 ELSE 0)
    + (IF Contains(ToLowerText(item.Category), token) THEN 3 ELSE 0)
    + (IF Contains(ToLowerText(item.Provider), token) THEN 3 ELSE 0)

RECURSIVE sumScores(_, _)
sumScores(item, toks) ==
    IF toks = << >> THEN 0
    ELSE (IF Head(toks) = "" THEN 0 ELSE tokenScore(item, Head(toks)))
            + sumScores(item, Tail(toks))

matchedTokens(item, toks) ==
    Cardinality({i \in 1..Len(toks) : toks[i] # "" /\ tokenScore(item, toks[i]) > 0})

\* matchScore with the required number of matching tokens left out.
matchScoreAnyToken(item, tokens, provider) ==
    IF provider # "" /\ ~Contains(ToLowerText(item.Provider), provider)
    THEN 0
    ELSE sumScores(item, significantTokens(tokens))

matchScore(item, tokens, provider) ==
    IF provider # "" /\ ~Contains(ToLowerText(item.Provider), provider)
    THEN 0
    ELSE LET sig == significantTokens(tokens)
             half == (Len(sig) + 1) \div 2
             minRequired == IF half < 1 THEN 1 ELSE half
         IN IF matchedTokens(item, sig) < minRequired THEN 0 ELSE sumScores(item, sig)

\* The number of characters of s from position i on that are in chars,
\* up to the first that is not.
RECURSIVE RunLength(_, _, _)
RunLength(s, i, chars) ==
    IF i > Len(s) \/ Char(s, i) \notin chars THEN 0
    ELSE 1 + RunLength(s, i + 1, chars)

\* The alternatives of the suffix group, in the order the expression lists
\* them; the last entry stands for the group matching nothing.
amountSuffixes == <<"k", "rb", "ribu", "jt", "juta", "m", "">>

\* The ways (\d+(?:[.,]\d+)?)\s*(k|rb|ribu|jt|juta|m)?(?:\s|$|[^a-z]) matches
\* text from position i: digits, length of the [.,]\d+ part, blanks, suffix.
amountMatchesAt(text, i) ==
    LET fracs(d) ==
            {0} \cup (IF Char(text, i + d) \in {".", ","}
                      THEN {n + 1 : n \in 1..RunLength(text, i + d + 1, DigitChars)}
                      ELSE {})
        shapes ==
            UNION {UNION {{[digits |-> d, frac |-> f, blanks |-> b] :
                              b \in 0..RunLength(text, i + d + f, SpaceChars)} :
                          f \in fracs(d)} :
                   d \in 1..RunLength(text, i, DigitChars)}
        ends(sh, x) ==
            LET suffixAt == i + sh.digits + sh.frac + sh.blanks
                endAt == suffixAt + Len(amountSuffixes[x])
            IN /\ endAt <= Len(text) + 1
               /\ Slice(text, suffixAt, endAt - 1) = amountSuffixes[x]
               /\ (endAt = Len(text) + 1 \/ Char(text, endAt) \notin LowerChars)
    IN UNION {{[digits |-> sh.digits, frac |-> sh.frac, blanks |-> sh.blanks,
                suffix |-> x] : x \in {y \in 1..Len(amountSuffixes) : ends(sh, y)}} :
              sh \in shapes}

\* The match the regexp package prefers: greedy parts as long as possible,
\* earlier alternatives first.
amountPreferred(a, b) ==
    \/ a.digits > b.digits
    \/ a.digits = b.digits /\ a.frac > b.frac
    \/ a.digits = b.digits /\ a.frac = b.frac /\ a.blanks > b.blanks
    \/ a.digits = b.digits /\ a.frac = b.frac /\ a.blanks = b.blanks
          /\ a.suffix <= b.suffix

\* re.FindStringSubmatch(text): << >> without a match, else the number and
\* the suffix of the leftmost match.
FindAmountSubmatch(text) ==
    LET starts == {i \in 1..Len(text) : amountMatchesAt(text, i) # {}}
    IN IF starts = {} THEN << >>
       ELSE LET i == CHOOSE x \in starts : \A y \in starts : x <= y
                m == CHOOSE a \in amountMatchesAt(text, i) :
                        \A b \in amountMatchesAt(text, i) : amountPreferred(a, b)
            IN <<Slice(text, i, i + m.digits + m.frac - 1), amountSuffixes[m.suffix]>>

\* amountRegex.FindString(text) for \d+(?:[.,]?\d+)?: the leftmost run of
\* digits, with a following [.,] and digits when there are any.
FindBasicAmount(text) ==
    LET starts == {i \in 1..Len(text) : Char(text, i) \in DigitChars}
    IN IF starts = {} THEN ""
       ELSE LET i == CHOOSE x \in starts : \A y \in starts : x <= y
                n1 == RunLength(text, i, DigitChars)
                n2 == IF i + n1 <= Len(text) /\ Char(text, i + n1) \in {".", ","}
                      THEN RunLength(text, i + n1 + 1, DigitChars) ELSE 0
            IN Slice(text, i, i + n1 + (IF n2 > 0 THEN n2 + 1 ELSE 0) - 1)

StripGrouping(numStr) == ReplaceAll(ReplaceAll(numStr, ".", ""), ",", "")

parseAmount(text) ==
    IF text = "" THEN [val |-> 0, err |-> "empty amount"]
    ELSE LET t == ToLowerText(TrimSpaceText(text))
             matches == FindAmountSubmatch(t)
         IN IF Len(matches) < 2
            THEN IF FindBasicAmount(t) = ""
                 THEN [val |-> 0, err |-> "no numeric value"]
                 ELSE [val |-> ParseInt(StripGrouping(FindBasicAmount(t))),
                       err |-> ErrNil]
            ELSE LET num == ParseInt(StripGrouping(matches[1]))
                 IN [val |-> IF matches[2] \in {"k", "rb", "ribu"} THEN num * 1000
                             ELSE IF matches[2] \in {"jt", "juta", "m"} THEN num * 1000000
                             ELSE num,
                     err |-> ErrNil]

absInt64(val) == IF val < 0 THEN 0 - val ELSE val

\* parseNominalAmount: the digits of the nominal as a number, 0 without any.
parseNominalAmount(value) ==
    LET clean == DigitsOf(StripGrouping(TrimSpaceText(value)))
    IN IF clean = "" THEN 0 ELSE ParseInt(clean)

amountDiff(item, amount) ==
    LET best == absInt64(item.Price - amount)
        nominal == parseNominalAmount(item.Nominal)
    IN IF nominal > 0 /\ absInt64(nominal - amount) < best
       THEN absInt64(nominal - amount)
       ELSE best

refineMatchesByAmount(items, amount) ==
    IF Len(items) <= 1 \/ amount <= 0
    THEN items
    ELSE SortSliceStable(items,
             LAMBDA a, b : IF amountDiff(a, amount) = amountDiff(b, amount)
                           THEN a.Price < b.Price
                           ELSE amountDiff(a, amount) < amountDiff(b, amount))

\* The cap of the abbreviated result lists.
ListCap == 10

\* filterByBudget without the status condition.
filterByBudgetAnyStatus(items, budget) ==
    {topN(res, ListCap) : res \in
        SortSlice(SelectSeq(items, LAMBDA item : item.Price <= budget),
                  LAMBDA a, b : a.Price < b.Price)}

\* filterByBudget: the lists it may return (sort.Slice leaves the order of
\* equally priced items open).
filterByBudget(items, budget) ==
    {topN(res, ListCap) : res \in
        SortSlice(SelectSeq(items, LAMBDA item : /\ item.Price <= budget
                                                 /\ EqualFold(item.Status, "available")),
                  LAMBDA a, b : a.Price < b.Price)}

\* The scored items of filterByQuery: the items with a positive score, or,
\* when there are none and a provider is given, the provider's items with
\* score 1.
scoredItems(items, tokens, provider) ==
    LET scoreOf(item) == matchScore(item, tokens, provider)
        scored == SelectSeq([i \in 1..Len(items) |->
                                [Item |-> items[i], Score |-> scoreOf(items[i])]],
                            LAMBDA sc : sc.Score > 0)
    IN IF Len(scored) = 0 /\ provider # ""
       THEN [i \in 1..Len(SelectSeq(items,
                     LAMBDA item : Contains(ToLowerText(item.Provider), provider))) |->
               [Item |-> SelectSeq(items,
                     LAMBDA item : Contains(ToLowerText(item.Provider), provider))[i],
                Score |-> 1]]
       ELSE scored

\* filterByQuery: the lists it may return.
filterByQuery(items, query, providerHint, full) ==
    LET provider == TrimSpaceText(ToLowerText(providerHint))
    IN IF query = "" /\ provider = ""
       THEN {IF full THEN res ELSE topN(res, ListCap) : res \in
                SortSlice(items,
                    LAMBDA a, b : IF ToLowerText(a.Category) = ToLowerText(b.Category)
                                  THEN a.Price < b.Price
                                  ELSE StringLess(ToLowerText(a.Category),
                                                  ToLowerText(b.Category)))}
       ELSE LET q == TrimSpaceText(ToLowerText(query))
                tokens == tokenizeQuery(q)
                amount == parseAmount(q)
            IN {LET top == [i \in 1..Len(sorted) |-> sorted[i].Item]
                    refined == IF amount.err = ErrNil /\ amount.val > 0
                               THEN refineMatchesByAmount(top, amount.val)
                               ELSE top
                IN IF full THEN refined ELSE topN(refined, ListCap) : sorted \in
                   SortSlice(scoredItems(items, tokens, provider),
                       LAMBDA a, b : IF a.Score = b.Score
                                     THEN a.Item.Price < b.Item.Price
                                     ELSE a.Score > b.Score)}

\* No catalog function is being called.
NoCall == [pc |-> "idle", fn |-> "", args |-> << >>, result |-> << >>]

----------------------------------------------------------------------------
(* The PPOB client: transport, create operations, price list, statuses *)

\* normalizeTransactionStatus without the words available, complete,
\* diproses, awaiting, progress, unavailable, cancel and null.
normalizeTransactionStatusFewerWords(status) ==
    LET st == ToLowerText(TrimSpaceText(status))
    IN IF st = "" THEN "unknown"
       ELSE IF st \in {"success", "sukses", "ok", "completed", "done", "paid", "berhasil"}
       THEN "success"
       ELSE IF st \in {"pending", "process", "processing", "waiting", "menunggu"}
       THEN "pending"
       ELSE IF st \in {"failed", "gagal", "cancelled", "expired", "timeout", "void",
                       "rejected"} THEN "failed"
       ELSE st

normalizeTransactionStatus(status) ==
    LET st == ToLowerText(TrimSpaceText(status))
    IN IF st \in {"", "null"} THEN "unknown"
       ELSE IF st \in {"success", "sukses", "ok", "completed", "complete", "done", "paid",
                       "berhasil", "available"} THEN "success"
       ELSE IF st \in {"pending", "process", "processing", "diproses", "waiting",
                       "awaiting", "progress", "menunggu"} THEN "pending"
       ELSE IF st \in {"failed", "gagal", "unavailable", "cancel", "cancelled", "expired",
                       "timeout", "void", "rejected"} THEN "failed"
       ELSE st

\* normalizeStatus: the status of a price item from its status code.
normalizeStatus(value) ==
    IF value = 1 THEN "available"
    ELSE IF value = 2 THEN "unavailable"
    ELSE ""

normalizeAvailabilityStatus(status) ==
    LET st == ToLowerText(TrimSpaceText(status))
    IN IF st \in {"", "null"} THEN ""
       ELSE IF st \in {"available", "aktif", "active", "success", "sukses", "ok", "ready"}
       THEN "available"
       ELSE IF st \in {"pending", "process", "diproses", "processing"} THEN "processing"
       ELSE IF st \in {"failed", "gagal", "unavailable", "off", "soldout", "empty"}
       THEN "unavailable"
       ELSE st

\* PriceListItem.UnmarshalJSON, the status of the item: statusText is what
\* readStringRaw finds under status / status_text ("" when there is none),
\* statusCode what readFloatRaw finds under status_id / status_code (0 when
\* there is none).
UnmarshalJSONStatus(statusText, statusCode) ==
    LET status == IF statusText = "" THEN normalizeStatus(statusCode) ELSE statusText
    IN normalizeAvailabilityStatus(status)

normalizeProductType(productType) ==
    LET pt == TrimSpaceText(ToLowerText(productType))
    IN IF pt = "" THEN "prabayar"
       ELSE IF pt = "prepaid" THEN "prabayar"
       ELSE IF pt = "postpaid" THEN "pascabayar"
       ELSE pt

cacheKey(productType) == "atlantic:pricelist:" \o productType

ProductTypes == {"", "Prepaid ", "postpaid", "pascabayar"}

CacheKeys == {cacheKey(normalizeProductType(t)) : t \in ProductTypes}

\* The data member of a response envelope: absent, not decodable, a map
\* with a status, or a list of items (by code).
EnvelopeData(form, status, items) == [form |-> form, status |-> status, items |-> items]

\* What the upstream answers to one HTTP request: no answer (network error,
\* timeout), or an HTTP status with a body that decodes as an envelope or
\* does not.
UpstreamReply(kind, code, decodes, status, data) ==
    [kind |-> kind, code |-> code, decodes |-> decodes, status |-> status, data |-> data,
     body |-> ""]

\* An upstream refusal: an HTTP status and the text of its body, which for a
\* body that decodes is the message of an envelope with status = false.
UpstreamRefusal(code, decodes, body) ==
    [kind |-> "http", code |-> code, decodes |-> decodes, status |-> FALSE,
     data |-> EnvelopeData("none", "", << >>), body |-> body]

NoData == EnvelopeData("none", "", << >>)

FailureReplies ==
    {UpstreamReply("network", 0, FALSE, FALSE, NoData),
     UpstreamReply("timeout", 0, FALSE, FALSE, NoData),
     UpstreamReply("http", 500, FALSE, FALSE, NoData),
     UpstreamReply("http", 401, TRUE, FALSE, NoData),
     UpstreamReply("http", 200, FALSE, FALSE, NoData),
     UpstreamReply("http", 200, TRUE, FALSE, NoData),
     UpstreamRefusal(403, TRUE, " Invalid credential "),
     UpstreamRefusal(200, TRUE, "API key invalid"),
     UpstreamRefusal(400, TRUE, "Saldo tidak cukup"),
     UpstreamRefusal(400, TRUE, "Metode deposit non aktif")}

CreateReplies ==
    FailureReplies
    \cup {UpstreamReply("http", 200, TRUE, TRUE, d) :
             d \in {NoData, EnvelopeData("undecodable", "", << >>)}
                   \cup {EnvelopeData("map", st, << >>) :
                            st \in {"Sukses", "pending", "available"}}}

PriceLists == {<<"TSEL10">>, <<"TSEL10", "TSEL20">>}

PriceListReplies ==
    FailureReplies
    \cup {UpstreamReply("http", 200, TRUE, TRUE, d) :
             d \in {NoData, EnvelopeData("undecodable", "", << >>)}
                   \cup {EnvelopeData("list", "", items) : items \in PriceLists}}

ErrInvalidCredential == "atlantic invalid credential"
ErrInsufficientBalance == "insufficient balance"

classifyHTTPError(status, body) ==
    LET lower == ToLowerText(TrimSpaceText(body))
        says(patterns) == \E p \in patterns : Contains(lower, p)
    IN IF \/ status = 401
          \/ says({"invalid credential", "credential invalid", "invalid api key",
                   "api key invalid", "kredensial tidak"})
       THEN ErrInvalidCredential
       ELSE IF says({"metode deposit tidak valid", "metode deposit non aktif",
                     "deposit tidak valid", "deposit method tidak valid",
                     "invalid deposit method", "saldo tidak cukup",
                     "insufficient balance", "insufficient funds"})
       THEN ErrInsufficientBalance
       ELSE "atlantic error"

\* do: one request goes out; sent is the requests of the client call so far.
do(sent, endpoint, reply) ==
    IF reply.kind # "http"
    THEN [sent |-> Append(sent, endpoint), env |-> Nil, err |-> "atlantic request"]
    ELSE IF reply.code >= 400
    THEN [sent |-> Append(sent, endpoint), env |-> Nil,
          err |-> classifyHTTPError(reply.code, reply.body)]
    ELSE IF ~reply.decodes
    THEN [sent |-> Append(sent, endpoint), env |-> Nil, err |-> "decode response"]
    ELSE [sent |-> Append(sent, endpoint),
          env |-> Some([Status |-> reply.status, Data |-> reply.data]), err |-> ErrNil]

\* call with the request sent again when the first attempt fails.
callSendingAgain(sent, endpoint, reply) ==
    LET first == do(sent, endpoint, reply)
        res == IF first.err # ErrNil THEN do(first.sent, endpoint, reply) ELSE first
    IN IF res.err # ErrNil THEN res
       ELSE IF ~res.env[1].Status
       THEN [sent |-> res.sent, env |-> Nil, err |-> "atlantic operation failed"]
       ELSE res

call(sent, endpoint, reply) ==
    LET res == do(sent, endpoint, reply)
    IN IF res.err # ErrNil THEN res
       ELSE IF ~res.env[1].Status
       THEN [sent |-> res.sent, env |-> Nil, err |-> "atlantic operation failed"]
       ELSE res

postForm(sent, endpoint, reply) == call(sent, endpoint, reply)

decodeMap(data) ==
    IF data.form = "none" THEN [status |-> "", err |-> ErrNil]
    ELSE IF data.form = "map" THEN [status |-> data.status, err |-> ErrNil]
    ELSE [status |-> "", err |-> "json: cannot unmarshal"]

parsePriceList(data) ==
    IF data.form = "none" THEN [items |-> << >>, err |-> ErrNil]
    ELSE IF data.form = "list" THEN [items |-> data.items, err |-> ErrNil]
    ELSE [items |-> << >>, err |-> "json: cannot unmarshal"]

\* No client call is being made.
NoClientCall ==
    [pc |-> "idle", op |-> "", args |-> << >>, sent |-> << >>, reads |-> 0, writes |-> 0,
     result |-> Nil, err |-> ErrNil]

\* A create operation: the form is posted to the endpoint and the data of
\* the envelope becomes the response.
createOperation(op, endpoint, refID, reply) ==
    LET posted == postForm(<< >>, endpoint, reply)
        data == decodeMap(posted.env[1].Data)
    IN [pc |-> "returned", op |-> op, args |-> [RefID |-> refID, reply |-> reply],
        sent |-> posted.sent, reads |-> 0, writes |-> 0,
        result |-> IF posted.err # ErrNil \/ data.err # ErrNil THEN Nil
                   ELSE Some([Status |-> normalizeTransactionStatus(data.status)]),
        err |-> IF posted.err # ErrNil THEN posted.err ELSE data.err]

CreatePrepaidTransaction(refID, reply) ==
    /\ atl.pc = "idle"
    /\ atl' = createOperation("CreatePrepaidTransaction", "/transaksi/create", refID, reply)
    /\ UNCHANGED <<redis, outsideAtlantic>>

BillPayment(refID, reply) ==
    /\ atl.pc = "idle"
    /\ atl' = createOperation("BillPayment", "/transaksi/tagihan/bayar", refID, reply)
    /\ UNCHANGED <<redis, outsideAtlantic>>

CreateDeposit(refID, reply) ==
    /\ atl.pc = "idle"
    /\ atl' = createOperation("CreateDeposit", "/deposit/create", refID, reply)
    /\ UNCHANGED <<redis, outsideAtlantic>>

CreateTransfer(refID, reply) ==
    /\ atl.pc = "idle"
    /\ atl' = createOperation("CreateTransfer", "/transfer/create", refID, reply)
    /\ UNCHANGED <<redis, outsideAtlantic>>

\* GetJSON: found, with the value, or not found, or an error.
GetJSON(store, key, fails) ==
    IF fails THEN [ok |-> FALSE, value |-> << >>, err |-> "redis get"]
    ELSE IF store[key] = Nil THEN [ok |-> FALSE, value |-> << >>, err |-> ErrNil]
    ELSE [ok |-> TRUE, value |-> store[key][1], err |-> ErrNil]

\* SetJSON: the store afterwards, and the error.
SetJSON(store, key, value, fails) ==
    IF fails THEN [store |-> store, err |-> "redis set"]
    ELSE [store |-> [store EXCEPT ![key] = Some(value)], err |-> ErrNil]

\* PriceList with the cache consulted whether or not a refresh is forced.
PriceListCacheFirst(store, productType, forceRefresh, readFails, reply, writeFails) ==
    LET key == cacheKey(normalizeProductType(productType))
        cached == GetJSON(store, key, readFails)
        posted == postForm(<< >>, "/layanan/price_list", reply)
        parsed == parsePriceList(posted.env[1].Data)
        saved == SetJSON(store, key, parsed.items, writeFails)
        reads == 1
    IN IF cached.err = ErrNil /\ cached.ok
       THEN [sent |-> << >>, reads |-> reads, writes |-> 0, result |-> Some(cached.value),
             err |-> ErrNil, store |-> store]
       ELSE IF posted.err # ErrNil
       THEN [sent |-> posted.sent, reads |-> reads, writes |-> 0, result |-> Nil,
             err |-> posted.err, store |-> store]
       ELSE IF parsed.err # ErrNil
       THEN [sent |-> posted.sent, reads |-> reads, writes |-> 0, result |-> Nil,
             err |-> "parse price list", store |-> store]
       ELSE [sent |-> posted.sent, reads |-> reads, writes |-> 1,
             result |-> Some(parsed.items), err |-> ErrNil, store |-> saved.store]

\* PriceList: what the call sends, reads and writes, what it returns, and
\* the cache afterwards.
PriceListOutcome(store, productType, forceRefresh, readFails, reply, writeFails) ==
    LET key == cacheKey(normalizeProductType(productType))
        cached == GetJSON(store, key, readFails)
        posted == postForm(<< >>, "/layanan/price_list", reply)
        parsed == parsePriceList(posted.env[1].Data)
        saved == SetJSON(store, key, parsed.items, writeFails)
        reads == IF forceRefresh THEN 0 ELSE 1
    IN IF ~forceRefresh /\ cached.err = ErrNil /\ cached.ok
       THEN [sent |-> << >>, reads |-> reads, writes |-> 0, result |-> Some(cached.value),
             err |-> ErrNil, store |-> store]
       ELSE IF posted.err # ErrNil
       THEN [sent |-> posted.sent, reads |-> reads, writes |-> 0, result |-> Nil,
             err |-> posted.err, store |-> store]
       ELSE IF parsed.err # ErrNil
       THEN [sent |-> posted.sent, reads |-> reads, writes |-> 0, result |-> Nil,
             err |-> "parse price list", store |-> store]
       ELSE [sent |-> posted.sent, reads |-> reads, writes |-> 1,
             result |-> Some(parsed.items), err |-> ErrNil, store |-> saved.store]

PriceList(productType, forceRefresh, readFails, reply, writeFails) ==
    /\ atl.pc = "idle"
    /\ LET out == PriceListOutcome(redis, productType, forceRefresh, readFails, reply,
                                   writeFails)
       IN /\ atl' = [pc |-> "returned", op |-> "PriceList",
                     args |-> [productType |-> productType, forceRefresh |-> forceRefresh,
                               readFails |-> readFails, reply |-> reply,
                               writeFails |-> writeFails, before |-> redis],
                     sent |-> out.sent, reads |-> out.reads, writes |-> out.writes,
                     result |-> out.result, err |-> out.err]
          /\ redis' = out.store
    /\ UNCHANGED outsideAtlantic

\* handleReloadPriceCache: a POST to /admin/reload-price-cache forces a
\* refresh; any other method is answered 405 and nothing is called.
handleReloadPriceCache(method, productType, reply, writeFails) ==
    /\ method = "POST"
    /\ PriceList(productType, TRUE, FALSE, reply, writeFails)

\* NormalizeTransactionStatus that trims the status and maps no word.
NormalizeTransactionStatusTrimOnly(status) ==
    /\ atl.pc = "idle"
    /\ atl' = [pc |-> "returned", op |-> "NormalizeTransactionStatus",
               args |-> [status |-> status], sent |-> << >>, reads |-> 0, writes |-> 0,
               result |-> Some(TrimSpaceText(status)), err |-> ErrNil]
    /\ UNCHANGED <<redis, outsideAtlantic>>

NormalizeTransactionStatus(status) ==
    /\ atl.pc = "idle"
    /\ atl' = [pc |-> "returned", op |-> "NormalizeTransactionStatus",
               args |-> [status |-> status], sent |-> << >>, reads |-> 0, writes |-> 0,
               result |-> Some(normalizeTransactionStatus(status)), err |-> ErrNil]
    /\ UNCHANGED <<redis, outsideAtlantic>>

\* json.Unmarshal of one price item, as far as its status goes.
UnmarshalJSON(statusText, statusCode) ==
    /\ atl.pc = "idle"
    /\ atl' = [pc |-> "returned", op |-> "UnmarshalJSON",
               args |-> [status |-> statusText, status_id |-> statusCode],
               sent |-> << >>, reads |-> 0, writes |-> 0,
               result |-> Some(UnmarshalJSONStatus(statusText, statusCode)),
               err |-> ErrNil]
    /\ UNCHANGED <<redis, outsideAtlantic>>

\* The caller takes the result; the next call may start.
ReturnClientCall ==
    /\ atl.pc = "returned"
    /\ atl' = NoClientCall
    /\ UNCHANGED <<redis, outsideAtlantic>>

\* The time to live of a cache entry runs out.
ExpireCacheEntry(key) ==
    /\ atl.pc = "idle"
    /\ redis[key] # Nil
    /\ redis' = [redis EXCEPT ![key] = Nil]
    /\ UNCHANGED <<atl, outsideAtlantic>>

----------------------------------------------------------------------------
(* API keys: the calls of the facade on either database *)

Backends == {"sqlite", "postgres"}

\* Repository.upsertAPIKey (Postgres): INSERT ... ON CONFLICT (provider,
\* value) DO UPDATE SET priority = EXCLUDED.priority; cooldown_until keeps
\* its value.
RepositoryUpsertAPIKey(tbl, value, priority) ==
    IF \E k \in tbl : k.value = value
    THEN {IF k.value = value THEN [k EXCEPT !.priority = priority] ELSE k : k \in tbl}
    ELSE tbl \cup {[id |-> value, value |-> value, priority |-> priority,
                    cooldown_until |-> Nil]}

RECURSIVE RepositorySyncGeminiKeysFrom(_, _, _)
RepositorySyncGeminiKeysFrom(tbl, keys, idx) ==
    IF idx > Len(keys)
    THEN tbl
    ELSE RepositorySyncGeminiKeysFrom(RepositoryUpsertAPIKey(tbl, keys[idx], idx - 1),
                                      keys, idx + 1)

RepositorySyncGeminiKeys(tbl, keys) == RepositorySyncGeminiKeysFrom(tbl, keys, 1)

\* UPDATE api_keys SET cooldown_until = NULL WHERE id = ?
ClearCooldownRows(tbl, id) ==
    IF ~\E k \in tbl : k.id = id
    THEN [rows |-> tbl, err |-> ErrNotFound]
    ELSE [rows |-> {IF k.id = id THEN [k EXCEPT !.cooldown_until = Nil] ELSE k : k \in tbl},
          err |-> ErrNil]

\* ORDER BY priority ASC: every order of the rows the statement may return
\* (rows of equal priority come in any order).
ListActiveGeminiKeysOrders(tbl) ==
    {s \in [1..Cardinality(tbl) -> tbl] :
        /\ \A i, j \in 1..Cardinality(tbl) : i # j => s[i] # s[j]
        /\ \A i, j \in 1..Cardinality(tbl) : i < j => s[i].priority <= s[j].priority}

\* No call of the api_keys facade was made yet; the database is not chosen.
NoKeysOp ==
    [backend |-> "none", op |-> "none", keys |-> << >>, id |-> "", before |-> {},
     result |-> << >>, err |-> ErrNil, at |-> 0]

\* The calls are made on the database the repository was opened on.
OnBackend(backend) == keysOp.backend \in {"none", backend}

CallSyncGeminiKeys(backend, keys) ==
    /\ OnBackend(backend)
    /\ api_keys' = IF Len(keys) = 0 THEN api_keys
                   ELSE IF backend = "sqlite" THEN SyncGeminiKeys(api_keys, keys)
                   ELSE RepositorySyncGeminiKeys(api_keys, keys)
    /\ keysOp' = [NoKeysOp EXCEPT !.backend = backend, !.op = "SyncGeminiKeys",
                                  !.keys = keys, !.before = api_keys, !.at = now,
                                  !.err = IF Len(keys) = 0 THEN "no gemini keys provided"
                                          ELSE ErrNil]
    /\ UNCHANGED <<now, outsideKeys>>

CallListActiveGeminiKeys(backend) ==
    /\ OnBackend(backend)
    /\ \E res \in ListActiveGeminiKeysOrders(api_keys) :
          keysOp' = [NoKeysOp EXCEPT !.backend = backend, !.op = "ListActiveGeminiKeys",
                                     !.before = api_keys, !.result = res, !.at = now]
    /\ UNCHANGED <<api_keys, now, outsideKeys>>

CallSetCooldownUntil(backend, id, until) ==
    /\ OnBackend(backend)
    /\ api_keys' = SetCooldownUntilRows(api_keys, id, until).rows
    /\ keysOp' = [NoKeysOp EXCEPT !.backend = backend, !.op = "SetCooldownUntil",
                                  !.id = id, !.before = api_keys, !.at = now,
                                  !.err = SetCooldownUntilRows(api_keys, id, until).err]
    /\ UNCHANGED <<now, outsideKeys>>

CallClearCooldown(backend, id) ==
    /\ OnBackend(backend)
    /\ api_keys' = ClearCooldownRows(api_keys, id).rows
    /\ keysOp' = [NoKeysOp EXCEPT !.backend = backend, !.op = "ClearCooldown",
                                  !.id = id, !.before = api_keys, !.at = now,
                                  !.err = ClearCooldownRows(api_keys, id).err]
    /\ UNCHANGED <<now, outsideKeys>>

\* Time passes between the calls.
KeysTick(d) ==
    /\ now + d <= MaxTime
    /\ now' = now + d
    /\ UNCHANGED <<api_keys, keysOp, outsideKeys>>

----------------------------------------------------------------------------
(* The facade under arbitrary callers *)

Init ==
    /\ orders = {}
    /\ deposits = {}
    /\ nextId = 0
    /\ lastOp = [op |-> "none", ref |-> "", status |-> "", err |-> ErrNil]
    /\ ppobCreates = [ref \in OrderRefs |-> 0]
    /\ deliveries = 0
    /\ advanced = {}
    /\ exchange = [req |-> NoRequest, resp |-> NoResponse]
    /\ api_keys = SyncGeminiKeys({}, GeminiAPIKeys)
    /\ now = 0
    /\ invokes = 0
    /\ inv = IdleInvocation
    /\ messages = 0
    /\ turns = {}
    /\ session = [u \in Senders |-> Nil]
    /\ confs = << >>
    /\ invoked = {}
    /\ minute = 0
    /\ catalogCall = NoCall
    /\ atl = NoClientCall
    /\ redis = [key \in CacheKeys |-> Nil]
    /\ keysOp = NoKeysOp
    /\ balanceCall = NoBalanceCall
    /\ userRows = {}
    /\ userOp = NoUserOp
    /\ returnedIds = {}

OrderInputs ==
    [user_id : UserIDs, order_ref : OrderRefs, amount : Amounts,
     status : StatusInputs, metadata : MetadataInputs]

DepositInputs ==
    [user_id : UserIDs, deposit_ref : DepositRefs, amount : Amounts,
     status : StatusInputs, metadata : MetadataInputs]

NextRepo ==
    \/ \E o \in OrderInputs : InsertOrder(o)
    \/ \E ref \in OrderRefs, st \in StatusInputs, md \in MetadataInputs :
          UpdateOrderStatus(ref, st, md)
    \/ \E ref \in OrderRefs, st \in StatusInputs, md \in MetadataInputs :
          RepositoryUpdateOrderStatus(ref, st, md)
    \/ \E d \in DepositInputs : InsertDeposit(d)
    \/ \E ref \in DepositRefs, st \in StatusInputs, md \in MetadataInputs :
          UpdateDepositStatus(ref, st, md)

SpecRepo == Init /\ [][NextRepo]_vars

----------------------------------------------------------------------------
(* Claims about the facade *)

OrderByRef(tbl, ref) == {r \in tbl : r.order_ref = ref}
DepositByRef(tbl, ref) == {r \in tbl : r.deposit_ref = ref}

OrderUpdateOps == {"UpdateOrderStatus", "RepositoryUpdateOrderStatus"}

TerminalOrderStaysAndRejects ==
    \A r \in orders :
        r.status \in TerminalStatuses =>
            /\ \A r2 \in OrderByRef(orders', r.order_ref) : r2.status = r.status
            /\ (lastOp'.op \in OrderUpdateOps /\ lastOp'.ref = r.order_ref)
                  => lastOp'.err # ErrNil

TerminalDepositStaysAndRejects ==
    \A r \in deposits :
        r.status \in TerminalStatuses =>
            /\ \A r2 \in DepositByRef(deposits', r.deposit_ref) : r2.status = r.status
            /\ (lastOp'.op = "UpdateDepositStatus" /\ lastOp'.ref = r.deposit_ref)
                  => lastOp'.err # ErrNil

\* C1: once the stored status of an order or deposit reference is success or
\* failed, every later status update for that reference is rejected and the
\* stored status stays as it is.
C1_TerminalStatusIsFinal ==
    [][TerminalOrderStaysAndRejects /\ TerminalDepositStaysAndRejects]_vars

UniqueRefs ==
    /\ \A r1, r2 \in orders : r1.order_ref = r2.order_ref => r1 = r2
    /\ \A r1, r2 \in deposits : r1.deposit_ref = r2.deposit_ref => r1 = r2

DuplicateInsertRejected ==
    /\ (lastOp'.op = "InsertOrder" /\ OrderByRef(orders, lastOp'.ref) # {})
          => (lastOp'.err # ErrNil /\ orders' = orders)
    /\ (lastOp'.op = "InsertDeposit" /\ DepositByRef(deposits, lastOp'.ref) # {})
          => (lastOp'.err # ErrNil /\ deposits' = deposits)

\* C2: an insert of an order or deposit whose reference already exists fails
\* with an error and leaves the existing row (status, amount, metadata)
\* unchanged, and there is never more than one row per reference.
C2_DuplicateRefRejected ==
    []UniqueRefs /\ [][DuplicateInsertRejected]_vars

\* A duplicate InsertOrder has just been refused while a row with another
\* status holds the reference.
C2_Witness ==
    /\ lastOp.op = "InsertOrder"
    /\ lastOp.err = ErrUnique
    /\ \E r \in orders : r.order_ref = lastOp.ref /\ r.status # lastOp.status

\* C4: after a status update for a reference (as a settlement event makes
\* it), a row for that reference exists and carries the status of the update,
\* also when no row existed before: the update is never dropped.
C4_UpdateLeavesRowWithStatus ==
    /\ lastOp.op \in OrderUpdateOps
          => \E r \in orders : r.order_ref = lastOp.ref /\ r.status = lastOp.status
    /\ lastOp.op = "UpdateDepositStatus"
          => \E r \in deposits : r.deposit_ref = lastOp.ref /\ r.status = lastOp.status

----------------------------------------------------------------------------
(* Settlement: deposit events and the orders that wait for them *)

\* The processor's loop over the listed orders: each one is moved to the
\* given status.
RECURSIVE UpdateOrdersStatus(_, _, _)
UpdateOrdersStatus(tbl, refs, status) ==
    IF refs = {}
    THEN tbl
    ELSE LET ref == CHOOSE x \in refs : TRUE
         IN UpdateOrdersStatus(UpdateOrderStatusRows(tbl, ref, status, Nil).rows,
                               refs \ {ref}, status)

\* The engine stores an order that waits for deposit depositRef to settle.
PlaceAwaitingOrder(orderRef, depositRef, amount) ==
    /\ nextId < MaxInserts
    /\ orders' = InsertOrderRows(orders, nextId + 1,
                     [user_id |-> "u1", order_ref |-> orderRef, amount |-> amount,
                      status |-> StatusAwaiting,
                      metadata |-> Some([deposit_ref |-> depositRef])]).rows
    /\ nextId' = nextId + 1
    /\ UNCHANGED <<deposits, lastOp, settleVars, outsideSettle>>

\* The engine stores the deposit it asked the provider for.
PlaceDeposit(depositRef, amount) ==
    /\ nextId < MaxInserts
    /\ deposits' = InsertDepositRows(deposits, nextId + 1,
                       [user_id |-> "u1", deposit_ref |-> depositRef, amount |-> amount,
                        status |-> StatusPending, metadata |-> Nil]).rows
    /\ nextId' = nextId + 1
    /\ UNCHANGED <<orders, lastOp, settleVars, outsideSettle>>

\* One deposit event handed to the processor by the ingress, which does not
\* deduplicate: the deposit takes the event's status; on success the orders
\* awaiting the deposit move to pending and their PPOB create is called, on
\* failed they move to failed.
HandleDepositEvent(depositRef, status) ==
    /\ deliveries < MaxDeliveries
    /\ deliveries' = deliveries + 1
    /\ deposits' = UpdateDepositStatusRows(deposits, depositRef, status, Nil).rows
    /\ LET listed == {r.order_ref : r \in ListOrdersAwaitingDeposit(orders, depositRef)}
           waiting == {r.order_ref : r \in
                          {x \in orders : /\ x.status = StatusAwaiting
                                          /\ x.metadata = Some({<<"deposit_ref", depositRef>>})}}
       IN CASE status = StatusSuccess ->
                 /\ orders' = UpdateOrdersStatus(orders, listed, StatusPending)
                 /\ ppobCreates' = [ref \in OrderRefs |->
                                      IF ref \in listed THEN ppobCreates[ref] + 1
                                      ELSE ppobCreates[ref]]
                 /\ advanced' = advanced \cup waiting
            [] status = StatusFailed ->
                 /\ orders' = UpdateOrdersStatus(orders, listed, StatusFailed)
                 /\ UNCHANGED <<ppobCreates, advanced>>
            [] OTHER -> UNCHANGED <<orders, ppobCreates, advanced>>
    /\ UNCHANGED <<nextId, lastOp, outsideSettle>>

\* The outcome of a PPOB create reaches the order.
PPOBResult(orderRef, status) ==
    /\ ppobCreates[orderRef] > 0
    /\ \E r \in orders : r.order_ref = orderRef /\ r.status = StatusPending
    /\ orders' = UpdateOrderStatusRows(orders, orderRef, status, Nil).rows
    /\ UNCHANGED <<deposits, nextId, lastOp, settleVars, outsideSettle>>

NextSettle ==
    \/ \E o \in OrderRefs, d \in SettleDepositRefs, a \in Amounts :
          PlaceAwaitingOrder(o, d, a)
    \/ \E d \in SettleDepositRefs, a \in Amounts : PlaceDeposit(d, a)
    \/ \E d \in SettleDepositRefs, st \in StatusInputs : HandleDepositEvent(d, st)
    \/ \E o \in OrderRefs, st \in TerminalStatuses : PPOBResult(o, st)

SpecSettle == Init /\ [][NextSettle]_vars

----------------------------------------------------------------------------
(* The webhook handler under arbitrary senders *)

NextWebhook == \E r \in Requests : ServeHTTP(r)

SpecWebhook == Init /\ [][NextWebhook]_vars

\* The Basic credentials of the request hash to the configured digests.
BasicMatches(r) ==
    /\ r.basic # Nil
    /\ md5Hex(r.basic[1].username) = "8a65294220bfdfe913bd813878d670b7"
    /\ md5Hex(r.basic[1].password) = "33e1b232a4e6fa0028a6670753749a17"

ExpectedDigestForms ==
    {"8a65294220bfdfe913bd813878d670b7", "8A65294220BFDFE913BD813878D670B7",
     " 33e1b232a4e6fa0028a6670753749a17 "}

\* The X-Atl-Signature header of the request carries an expected digest.
AtlSignatureMatches(r) == r.xAtlSignature \in ExpectedDigestForms

\* Some signature header of the request carries an expected digest.
AnySignatureMatches(r) ==
    \/ r.xAtlSignature \in ExpectedDigestForms
    \/ r.xAtlanticSignature \in ExpectedDigestForms
    \/ r.xSignature \in ExpectedDigestForms

NoSignatureHeader(r) ==
    r.xAtlSignature = "" /\ r.xAtlanticSignature = "" /\ r.xSignature = ""

Served == exchange.req.method = "POST"

AuthPasses(r) == validateAuth(r) = ErrNil

ProcessorCalledOnlyAfterAuth ==
    /\ exchange.resp.processorCalls <= 1
    /\ exchange.resp.processorCalls = 1 => AuthPasses(exchange.req)
    /\ exchange.resp.code = 401 => exchange.resp.processorCalls = 0

\* C6 as stated: every POST ends in exactly one of 401 (authentication
\* failed, processor not called), 500 (the processor returned an error) or
\* 200 with body {"status":"ok"} (the processor returned nil); the processor
\* is called at most once and only after authentication passed.
C6_ThreeOutcomes ==
    Served =>
        /\ exchange.resp.code \in {401, 500, 200}
        /\ exchange.resp.code = 401 <=> ~AuthPasses(exchange.req)
        /\ exchange.resp.code = 200 => exchange.resp.body = "{\"status\":\"ok\"}"
        /\ ProcessorCalledOnlyAfterAuth

\* C6: every POST ends in exactly one of 401 (authentication failed), 400
\* (authenticated, the body could not be read), 500 (the processor returned
\* an error) or 200 with body {"status":"ok"} (the processor returned nil);
\* the processor is not called for 401 and 400, and is called exactly once
\* for 500 and 200, so at most once and only after authentication passed.
C6_FourOutcomes ==
    Served =>
        /\ exchange.resp.code \in {401, 400, 500, 200}
        /\ exchange.resp.code = 401 <=> ~AuthPasses(exchange.req)
        /\ exchange.resp.code = 400
              <=> (AuthPasses(exchange.req) /\ ~exchange.req.bodyReadable)
        /\ exchange.resp.code = 500
              <=> (AuthPasses(exchange.req) /\ exchange.req.bodyReadable
                     /\ exchange.req.processorFails)
        /\ exchange.resp.code = 200
              <=> (AuthPasses(exchange.req) /\ exchange.req.bodyReadable
                     /\ ~exchange.req.processorFails)
        /\ exchange.resp.code = 200 => exchange.resp.body = "{\"status\":\"ok\"}"
        /\ exchange.resp.code \in {401, 400} => exchange.resp.processorCalls = 0
        /\ exchange.resp.code \in {500, 200} => exchange.resp.processorCalls = 1
        /\ ProcessorCalledOnlyAfterAuth

\* An authenticated POST whose body could not be read was answered 400
\* without a call of the processor.
C6_Witness ==
    /\ Served
    /\ AuthPasses(exchange.req)
    /\ ~exchange.req.bodyReadable
    /\ exchange.req.processorFails
    /\ exchange.resp.code = 400
    /\ exchange.resp.processorCalls = 0

----------------------------------------------------------------------------
(* The key rotator under arbitrary model outcomes *)

NextRotator ==
    \/ Invoke
    \/ LoopStep
    \/ \E outcome \in FnOutcomes : FnReturns(outcome)
    \/ InvokeReturns
    \/ \E d \in TickHours : Tick(d)

SpecRotator == Init /\ [][NextRotator]_vars

KeyById(id) == CHOOSE k \in api_keys : k.id = id

\* Every key whose call returned quota is cooled until at least 24h after
\* that call.
QuotaKeysCooled ==
    \A n \in 1..Len(inv.log) :
        inv.log[n].outcome = "quota" =>
            /\ KeyById(inv.log[n].key).cooldown_until # Nil
            /\ KeyById(inv.log[n].key).cooldown_until[1] >= inv.log[n].at + CooldownHours

\* Keys are called in strictly ascending priority, so none is called twice.
CalledInPriorityOrder ==
    \A m, n \in 1..Len(inv.log) : m < n => inv.log[m].priority < inv.log[n].priority

\* After a quota error the next key that is not cooling down is called: when
\* withGemini is at the head of its loop or done, no key before its position
\* that was eligible when the invocation started has been left out.
EligibleKeysTried ==
    inv.pc \in {"loop", "done"} /\ (inv.log # << >> => inv.log[Len(inv.log)].outcome # "ok")
        => \A n \in 1..Len(inv.keys) :
              (n < inv.i /\ ~InCooldown(inv.keys[n], inv.startedAt))
                  => \E m \in 1..Len(inv.log) : inv.log[m].key = inv.keys[n].id

AllQuota ==
    /\ inv.log # << >>
    /\ \A n \in 1..Len(inv.log) : inv.log[n].outcome = "quota"

ErrNoCredentials == "no_credentials_available"

NoneEligibleAtStart ==
    \A k \in inv.poolAtStart : InCooldown(k, inv.startedAt)

\* C8: an invocation started when no key was eligible (every key cooling
\* down) never calls fn and returns no_credentials_available, not success.
C8_NoCredentialsAvailable ==
    (inv.pc = "done" /\ NoneEligibleAtStart)
        => (inv.log = << >> /\ inv.result = ErrNoCredentials)

----------------------------------------------------------------------------
(* The dialog under arbitrary senders and schedules *)

NextDialog ==
    \/ \E u \in Senders, m \in MessageInputs : handleMessage(u, m)
    \/ \E t \in turns : BeginTurn(t)
    \/ \E t \in turns : ConfirmStep(t)
    \/ \E t \in turns : ExternalCall(t)
    \/ \E t \in turns, intent \in Intents, confident \in BOOLEAN :
          Dispatch(t, intent, confident)
    \/ \E d \in TickMinutes : TickMinute(d)

SpecDialog == Init /\ [][NextDialog]_vars

\* C9: of two unfinished turns of the same user, the one of the later
\* message has not started: its processing begins only after the turn of
\* the earlier message has finished.
C9_TurnsOfOneUserDoNotOverlap ==
    \A t1, t2 \in turns :
        (t1.user = t2.user /\ t1.seq < t2.seq) => t2.pc = "spawned"

----------------------------------------------------------------------------
(* The catalog search under arbitrary catalogs and queries *)

PriceListItem(code, name, category, provider, nominal, price, status) ==
    [Code |-> code, Name |-> name, Category |-> category, Provider |-> provider,
     Nominal |-> nominal, Price |-> price, Status |-> status]

\* The items of the small catalogs: two prepaid credits of one provider,
\* a voucher at the price of one of them, and an item that is not on sale.
ItemPool ==
    {PriceListItem("TSEL10", "Pulsa Telkomsel 10k", "Pulsa", "Telkomsel", "10000", 10000,
                   "available"),
     PriceListItem("TSEL20", "Pulsa Telkomsel 20k", "Pulsa", "Telkomsel", "20000", 20000,
                   "available"),
     PriceListItem("VIU30", "Voucher VIU 30 hari", "Streaming", "VIU", "", 20000,
                   "Available"),
     PriceListItem("XL5", "Pulsa XL 5k", "Pulsa", "XL", "5.000", 5500, "empty")}

SmallCatalogs ==
    UNION {{c \in [1..n -> ItemPool] : \A i, j \in 1..n : i # j => c[i] # c[j]} :
              n \in 0..MaxCatalog}

\* A catalog with more qualifying items than the result lists hold: data
\* packages of one provider, two of them at the same price, one not on sale.
BulkCodes ==
    <<"ISAT01", "ISAT02", "ISAT03", "ISAT04", "ISAT05", "ISAT06", "ISAT07", "ISAT08",
      "ISAT09", "ISAT10", "ISAT11", "ISAT12", "ISAT13">>

BulkPrices ==
    <<6000, 11000, 3000, 8000, 13000, 5000, 10000, 2000, 7000, 12000, 4000, 9000, 2000>>

BulkCatalog ==
    [i \in 1..Len(BulkCodes) |->
        PriceListItem(BulkCodes[i], "Data Indosat", "Data", "Indosat", "", BulkPrices[i],
                      IF i = 3 THEN "empty" ELSE "available")]

Catalogs == SmallCatalogs \cup {BulkCatalog}

Queries ==
    {"", "pulsa", "tsel20 10k", "viu", "mau yang", "Pulsa Telkomsel 20k", "data"}

ProviderHints == {"", "Telkomsel ", "xl"}

Budgets == {0, 5500, 10000, 20000, 100000}

AmountTexts ==
    {"", "5k", "20rb", "1.5jt", "kirim 7500", "kirim", "2,5 juta", "10.000", "5kg",
     "pulsa 25 ribu", "12a 7k", "10gb", "5000x", "kuota 10gb 30 hari"}

CallFilterByQuery(items, query, provider, full) ==
    /\ catalogCall.pc = "idle"
    /\ \E res \in filterByQuery(items, query, provider, full) :
          catalogCall' = [pc |-> "returned", fn |-> "filterByQuery",
                   args |-> [items |-> items, query |-> query, provider |-> provider,
                             full |-> full],
                   result |-> res]
    /\ UNCHANGED outsideCatalog

CallFilterByBudget(items, budget) ==
    /\ catalogCall.pc = "idle"
    /\ \E res \in filterByBudget(items, budget) :
          catalogCall' = [pc |-> "returned", fn |-> "filterByBudget",
                   args |-> [items |-> items, budget |-> budget],
                   result |-> res]
    /\ UNCHANGED outsideCatalog

CallParseAmount(text) ==
    /\ catalogCall.pc = "idle"
    /\ catalogCall' = [pc |-> "returned", fn |-> "parseAmount", args |-> [text |-> text],
                result |-> parseAmount(text)]
    /\ UNCHANGED outsideCatalog

\* The caller takes the result; the next call may start.
ReturnCall ==
    /\ catalogCall.pc = "returned"
    /\ catalogCall' = NoCall
    /\ UNCHANGED outsideCatalog

NextCatalog ==
    \/ \E items \in Catalogs, query \in Queries, provider \in ProviderHints,
          full \in BOOLEAN : CallFilterByQuery(items, query, provider, full)
    \/ \E items \in Catalogs, budget \in Budgets : CallFilterByBudget(items, budget)
    \/ \E text \in AmountTexts : CallParseAmount(text)
    \/ ReturnCall

SpecCatalog == Init /\ [][NextCatalog]_vars

Returned(fn) == catalogCall.pc = "returned" /\ catalogCall.fn = fn

\* The hint and the significant tokens filterByQuery works with.
HintOf(args) == TrimSpaceText(ToLowerText(args.provider))
QueryTokens(args) == significantTokens(tokenizeQuery(TrimSpaceText(ToLowerText(args.query))))

\* The number of matching tokens an item needs: ceil(k/2), at least one.
TokensRequired(toks) ==
    IF (Len(toks) + 1) \div 2 < 1 THEN 1 ELSE (Len(toks) + 1) \div 2

\* The number of the tokens found in the code, name, category or provider
\* of the item.
TokensMatched(item, toks) ==
    Cardinality({i \in 1..Len(toks) :
        \E field \in {item.Code, item.Name, item.Category, item.Provider} :
            Contains(ToLowerText(field), toks[i])})

Qualifies(item, hint, toks) ==
    /\ hint = "" \/ Contains(ToLowerText(item.Provider), hint)
    /\ TokensMatched(item, toks) >= TokensRequired(toks)

\* What the order of a result list is judged by, per position: the score
\* (per token, 5 for the code, 4 for the name, 3 for the category and 3 for
\* the provider it is found in), the price, and whether the item qualifies.
Ranking(list, hint, toks) ==
    [i \in 1..Len(list) |->
        [score |-> sumScores(list[i], toks), price |-> list[i].Price,
         qualifies |-> Qualifies(list[i], hint, toks),
         hinted |-> Contains(ToLowerText(list[i].Provider), hint)]]

InScoreOrder(rk) ==
    \A i, j \in DOMAIN rk : i < j =>
        \/ rk[i].score > rk[j].score
        \/ rk[i].score = rk[j].score /\ rk[i].price <= rk[j].price

Distance(item, amount) ==
    LET byPrice == IF item.Price >= amount THEN item.Price - amount ELSE amount - item.Price
        nominal == parseNominalAmount(item.Nominal)
        byNominal == IF nominal >= amount THEN nominal - amount ELSE amount - nominal
    IN IF nominal > 0 /\ byNominal < byPrice THEN byNominal ELSE byPrice

InAmountOrder(list, amount) ==
    LET dist == [i \in 1..Len(list) |-> Distance(list[i], amount)]
    IN \A i, j \in 1..Len(list) : i < j =>
          \/ dist[i] < dist[j]
          \/ dist[i] = dist[j] /\ list[i].Price <= list[j].Price

InCategoryOrder(list) ==
    \A i, j \in 1..Len(list) : i < j =>
        \/ StringLess(ToLowerText(list[i].Category), ToLowerText(list[j].Category))
        \/ /\ ToLowerText(list[i].Category) = ToLowerText(list[j].Category)
           /\ list[i].Price <= list[j].Price

C12_ParseAmountExamples ==
    Returned("parseAmount") =>
        /\ catalogCall.args.text = "5k" => catalogCall.result = [val |-> 5000, err |-> ErrNil]
        /\ catalogCall.args.text = "20rb" => catalogCall.result = [val |-> 20000, err |-> ErrNil]
        /\ catalogCall.args.text = "1.5jt" => catalogCall.result = [val |-> 1500000, err |-> ErrNil]
        /\ catalogCall.args.text = "kirim 7500" => catalogCall.result = [val |-> 7500, err |-> ErrNil]
        /\ ~ContainsAny(catalogCall.args.text, DigitChars) => catalogCall.result.err # ErrNil

\* C13: for any item list and budget B, filterByBudget returns only items
\* with status available and price <= B, sorted by price ascending, at most
\* 10 of them, and no qualifying item cheaper than a returned one is left
\* out.
Affordable(item, budget) ==
    item.Price <= budget /\ ToLowerText(item.Status) = "available"

----------------------------------------------------------------------------
(* The PPOB client under arbitrary upstream replies and cache failures *)

ClientRefs == {"O1"}

UpperOf == [c \in LowerChars |->
               Char(UpperLetters, CHOOSE i \in 1..Len(LowerLetters) : Char(LowerLetters, i) = c)]

RECURSIVE ToUpperText(_)
ToUpperText(s) ==
    IF Len(s) = 0 THEN ""
    ELSE (IF Char(s, 1) \in LowerChars THEN UpperOf[Char(s, 1)] ELSE Char(s, 1))
            \o ToUpperText(Slice(s, 2, Len(s)))

\* The status words of the upstream, and some it does not use.
StatusWords ==
    {"", "null", "success", "sukses", "ok", "completed", "complete", "done", "paid",
     "berhasil", "available", "pending", "process", "processing", "diproses", "waiting",
     "awaiting", "progress", "menunggu", "failed", "gagal", "unavailable", "cancel",
     "cancelled", "expired", "timeout", "void", "rejected", "refunded", "unknown",
     "partial", "sukses!", "not ok"}

\* Each word as it is, in capitals, and with white space around it.
TransactionStatusTexts ==
    StatusWords \cup {ToUpperText(w) : w \in StatusWords}
                \cup {" " \o w \o "\t\n" : w \in StatusWords}

\* The status texts and status codes price items arrive with: known words,
\* a word no list holds, and none.
ItemStatusTexts ==
    {"", "Available", " aktif ", "PENDING", "empty", "soldout", "null", "maintenance",
     "gangguan"}
ItemStatusCodes == {0, 1, 2, 3}

NextAtlantic ==
    \/ \E refID \in ClientRefs, reply \in CreateReplies :
          CreatePrepaidTransaction(refID, reply)
    \/ \E refID \in ClientRefs, reply \in CreateReplies : BillPayment(refID, reply)
    \/ \E refID \in ClientRefs, reply \in CreateReplies : CreateDeposit(refID, reply)
    \/ \E refID \in ClientRefs, reply \in CreateReplies : CreateTransfer(refID, reply)
    \/ \E productType \in ProductTypes, forceRefresh \in BOOLEAN, readFails \in BOOLEAN,
          reply \in PriceListReplies, writeFails \in BOOLEAN :
          PriceList(productType, forceRefresh, readFails, reply, writeFails)
    \/ \E method \in {"GET", "POST"}, productType \in ProductTypes,
          reply \in PriceListReplies, writeFails \in BOOLEAN :
          handleReloadPriceCache(method, productType, reply, writeFails)
    \/ \E status \in TransactionStatusTexts : NormalizeTransactionStatus(status)
    \/ \E statusText \in ItemStatusTexts, statusCode \in ItemStatusCodes :
          UnmarshalJSON(statusText, statusCode)
    \/ ReturnClientCall
    \/ \E key \in CacheKeys : ExpireCacheEntry(key)

SpecAtlantic == Init /\ [][NextAtlantic]_vars

CreateOperations ==
    {"CreatePrepaidTransaction", "BillPayment", "CreateDeposit", "CreateTransfer"}

ClientReturned(op) == atl.pc = "returned" /\ atl.op = op

\* C14: a single call of a create operation issues at most one upstream
\* HTTP request, whatever the outcome (network error, timeout, HTTP 5xx,
\* status false); the client never sends a create again on its own.
C14_CreateSendsAtMostOnce ==
    \A op \in CreateOperations : ClientReturned(op) => Len(atl.sent) <= 1

\* Reached: a create call answered HTTP 500 that returned the error with
\* its one request sent.
C14_Witness ==
    /\ ClientReturned("CreatePrepaidTransaction")
    /\ atl.args.reply.kind = "http" /\ atl.args.reply.code = 500
    /\ atl.err # ErrNil
    /\ Len(atl.sent) = 1

\* The cache entry PriceList works with.
KeyOf(args) == cacheKey(normalizeProductType(args.productType))

\* The upstream answered the price list request with a list.
Refreshed(args) ==
    /\ args.reply.kind = "http" /\ args.reply.code < 400
    /\ args.reply.decodes /\ args.reply.status
    /\ args.reply.data.form \in {"none", "list"}

\* Without a forced refresh and with a readable entry, the cached list is
\* returned and the upstream is not called.
CacheHitServed ==
    (/\ ClientReturned("PriceList")
     /\ ~atl.args.forceRefresh /\ ~atl.args.readFails
     /\ atl.args.before[KeyOf(atl.args)] # Nil) =>
            /\ atl.err = ErrNil
            /\ atl.result = atl.args.before[KeyOf(atl.args)]
            /\ atl.sent = << >>
            /\ redis = atl.args.before

\* With a forced refresh the cache is never read and the upstream is called.
ForcedRefreshBypassesRead ==
    (ClientReturned("PriceList") /\ atl.args.forceRefresh) =>
        (atl.reads = 0 /\ atl.sent = <<"/layanan/price_list">>)

\* A cache read failure is not returned; the upstream is called and decides
\* the result.
ReadFailureFallsThrough ==
    (ClientReturned("PriceList") /\ ~atl.args.forceRefresh /\ atl.args.readFails) =>
        /\ atl.sent = <<"/layanan/price_list">>
        /\ (atl.err = ErrNil) <=> Refreshed(atl.args)

\* C15 as stated: without a forced refresh a readable cache entry is
\* returned and the upstream is not called; with a forced refresh the cache
\* is never read, the upstream is called, and on success the cache entry is
\* overwritten with the fresh list; a cache read failure is not returned
\* as an error but falls through to the upstream call.
C15_ForcedRefreshOverwrites ==
    /\ CacheHitServed
    /\ ForcedRefreshBypassesRead
    /\ ReadFailureFallsThrough
    /\ (ClientReturned("PriceList") /\ atl.args.forceRefresh /\ atl.err = ErrNil) =>
          redis[KeyOf(atl.args)] = atl.result

\* C15, amended: as stated, but on success the cache entry is overwritten
\* with the fresh list only when the cache write succeeds; when the write
\* fails the fresh list is still returned and the cache is left as it was.
C15_ForcedRefreshWritesWhenCacheUp ==
    /\ CacheHitServed
    /\ ForcedRefreshBypassesRead
    /\ ReadFailureFallsThrough
    /\ (ClientReturned("PriceList") /\ atl.sent # << >> /\ atl.err = ErrNil) =>
             /\ atl.writes = 1
             /\ atl.result = Some(atl.args.reply.data.items)
             /\ ~atl.args.writeFails => redis[KeyOf(atl.args)] = atl.result
             /\ atl.args.writeFails => redis = atl.args.before
    /\ (ClientReturned("PriceList") /\ atl.err # ErrNil) => redis = atl.args.before

\* Reached: a forced refresh over a cached list that replaces it with a
\* different fresh one.
C15_Witness ==
    /\ ClientReturned("PriceList")
    /\ atl.args.forceRefresh
    /\ atl.args.before[KeyOf(atl.args)] # Nil
    /\ atl.err = ErrNil
    /\ atl.result # atl.args.before[KeyOf(atl.args)]
    /\ redis[KeyOf(atl.args)] = atl.result

Folded(status) == ToLowerText(TrimSpaceText(status))

\* C16 as stated: success, sukses, ok, berhasil, done, paid and completed
\* map to success; pending, process, processing, waiting and menunggu to
\* pending; failed, gagal, cancelled, expired, timeout, void and rejected to
\* failed; the empty string to unknown; every other input, case-folded and
\* trimmed, to itself ("available" stays "available").
C16_OnlyListedWordsMapped ==
    ClientReturned("NormalizeTransactionStatus") =>
        LET st == Folded(atl.args.status)
        IN atl.result =
              Some(IF st \in {"success", "sukses", "ok", "berhasil", "done", "paid",
                              "completed"} THEN "success"
                   ELSE IF st \in {"pending", "process", "processing", "waiting",
                                   "menunggu"} THEN "pending"
                   ELSE IF st \in {"failed", "gagal", "cancelled", "expired", "timeout",
                                   "void", "rejected"} THEN "failed"
                   ELSE IF st = "" THEN "unknown"
                   ELSE st)

\* C16, amended: besides the words of the claim, complete and available map
\* to success, diproses, awaiting and progress to pending, unavailable and
\* cancel to failed, and null to unknown; every other input, case-folded
\* and trimmed, maps to itself.
C16_ListedAndFurtherWordsMapped ==
    ClientReturned("NormalizeTransactionStatus") =>
        LET st == Folded(atl.args.status)
        IN atl.result =
              Some(CASE st \in {"success", "sukses", "ok", "berhasil", "done", "paid",
                                "completed"} \cup {"complete", "available"} -> "success"
                     [] st \in {"pending", "process", "processing", "waiting", "menunggu"}
                               \cup {"diproses", "awaiting", "progress"} -> "pending"
                     [] st \in {"failed", "gagal", "cancelled", "expired", "timeout",
                                "void", "rejected"} \cup {"unavailable", "cancel"}
                           -> "failed"
                     [] st \in {"", "null"} -> "unknown"
                     [] OTHER -> st)

\* Reached: available, in capitals, mapped to success.
C16_Witness ==
    /\ ClientReturned("NormalizeTransactionStatus")
    /\ atl.args.status = "AVAILABLE"
    /\ atl.result = Some("success")

----------------------------------------------------------------------------
(* The api_keys facade under arbitrary callers *)

KeyValues == {"key1", "key2", "key3"}

\* The lists a sync is run with: distinct keys in order, or none.
SyncLists ==
    UNION {{l \in [1..n -> KeyValues] : \A i, j \in 1..n : i # j => l[i] # l[j]} :
              n \in 0..MaxSyncKeys}

NextKeys ==
    \/ \E backend \in Backends, keys \in SyncLists : CallSyncGeminiKeys(backend, keys)
    \/ \E backend \in Backends : CallListActiveGeminiKeys(backend)
    \/ \E backend \in Backends, id \in KeyValues :
          CallSetCooldownUntil(backend, id, now + CooldownHours)
    \/ \E backend \in Backends, id \in KeyValues : CallClearCooldown(backend, id)
    \/ \E d \in TickHours : KeysTick(d)

SpecKeys == Init /\ [][NextKeys]_vars

\* C17: after the credential sync has run with an ordered list of secrets,
\* every listed secret exists exactly once with priority equal to its index
\* in the list and with cooldown_until cleared, also when it existed and was
\* cooling down before the sync.
C17_SyncClearsCooldown ==
    (keysOp.op = "SyncGeminiKeys" /\ keysOp.err = ErrNil) =>
        \A i \in 1..Len(keysOp.keys) :
            /\ Cardinality({k \in api_keys : k.value = keysOp.keys[i]}) = 1
            /\ \A k \in api_keys :
                  k.value = keysOp.keys[i] =>
                     k.priority = i - 1 /\ k.cooldown_until = Nil

\* The credentials of a table that are eligible at time t: cooldown_until
\* is null or not after t.
Eligible(tbl, t) == {k \in tbl : k.cooldown_until = Nil \/ k.cooldown_until[1] <= t}

\* C18: the list of eligible credentials of the facade holds exactly the
\* credentials whose cooldown_until is null or in the past, in ascending
\* priority; a credential whose cooldown_until lies in the future is never
\* returned, and is returned again once the time has passed.
C18_ListHoldsEligibleOnly ==
    keysOp.op = "ListActiveGeminiKeys" =>
        /\ {keysOp.result[i] : i \in 1..Len(keysOp.result)} = Eligible(keysOp.before, keysOp.at)
        /\ \A i, j \in 1..Len(keysOp.result) :
              i < j => keysOp.result[i].priority <= keysOp.result[j].priority

----------------------------------------------------------------------------
(* The tables under status updates and balance queries *)

\* Orders and deposits are created waiting and move on by status updates.
BalanceInsertStatuses == {StatusAwaiting, StatusPending}
BalanceUpdateStatuses == {StatusProcessing, StatusSuccess}

BalanceOrderInputs ==
    [user_id : users, order_ref : OrderRefs, amount : Amounts,
     status : BalanceInsertStatuses, metadata : {Nil}]

BalanceDepositInputs ==
    [user_id : users, deposit_ref : DepositRefs, amount : Amounts,
     status : BalanceInsertStatuses, metadata : {Nil}]

NextBalance ==
    \/ \E o \in BalanceOrderInputs :
          balanceCall = NoBalanceCall /\ InsertOrder(o)
    \/ \E ref \in OrderRefs, st \in BalanceUpdateStatuses :
          balanceCall = NoBalanceCall /\ UpdateOrderStatus(ref, st, Nil)
    \/ \E d \in BalanceDepositInputs :
          balanceCall = NoBalanceCall /\ InsertDeposit(d)
    \/ \E ref \in DepositRefs, st \in BalanceUpdateStatuses :
          balanceCall = NoBalanceCall /\ UpdateDepositStatus(ref, st, Nil)
    \/ \E userID \in BalanceUserIDs : GetUserBalance(userID)
    \/ ReturnUserBalance

SpecBalance == Init /\ [][NextBalance]_vars

\* The statuses the balance contract counts as pending.
PendingStatuses == {"pending", "processing", "awaiting_payment"}

\* The sum of the amounts of the user's rows of a table in the given statuses.
AmountOf(tbl, userID, statuses) ==
    SumAmount({r \in tbl : r.user_id = userID /\ r.status \in statuses})

\* C19: for every user, the computed balance has confirmed_balance = the sum
\* of the user's deposits with status success minus the sum of the user's
\* orders with status success, and each pending sum, of deposits as of
\* orders, counts exactly the rows in pending, processing or awaiting_payment.
C19_BalanceSums ==
    (balanceCall.op = "GetUserBalance" /\ balanceCall.err = ErrNil) =>
        LET u == balanceCall.userID
            ub == balanceCall.ub
        IN /\ ub.SaldoConfirmed =
                  AmountOf(deposits, u, {"success"}) - AmountOf(orders, u, {"success"})
           /\ ub.DepositedPending = AmountOf(deposits, u, PendingStatuses)
           /\ ub.SpentPending = AmountOf(orders, u, PendingStatuses)

----------------------------------------------------------------------------
(* The metadata of a row under status updates *)

\* The metadata rows are created with, and the metadata status updates carry.
InsertMetadata == {Nil, Some([deposit_ref |-> "D1"])}
UpdateMetadata == {Nil, Some([sn |-> "SN1"])}
MetadataUpdateStatuses == {StatusPending, StatusSuccess}

MetadataOrderInputs ==
    [user_id : UserIDs, order_ref : OrderRefs, amount : {1000},
     status : {StatusAwaiting}, metadata : InsertMetadata]

MetadataDepositInputs ==
    [user_id : UserIDs, deposit_ref : DepositRefs, amount : {1000},
     status : {StatusPending}, metadata : InsertMetadata]

NextMetadata ==
    \/ \E o \in MetadataOrderInputs : InsertOrder(o)
    \/ \E ref \in OrderRefs, st \in MetadataUpdateStatuses, md \in UpdateMetadata :
          UpdateOrderStatus(ref, st, md)
    \/ \E ref \in OrderRefs, st \in MetadataUpdateStatuses, md \in UpdateMetadata :
          RepositoryUpdateOrderStatus(ref, st, md)
    \/ \E d \in MetadataDepositInputs : InsertDeposit(d)
    \/ \E ref \in DepositRefs, st \in MetadataUpdateStatuses, md \in UpdateMetadata :
          UpdateDepositStatus(ref, st, md)

SpecMetadata == Init /\ [][NextMetadata]_vars

\* The stored metadata of the rows a status update names, after the update:
\* the supplied document when one is supplied, else what was stored.
MetadataReplacedOrKept(before, after, named(_), metadata) ==
    \A r \in before :
        named(r) =>
            \E q \in after :
                /\ q.id = r.id
                /\ q.metadata = IF metadata = Nil THEN r.metadata ELSE toJSON(metadata)

\* C20: a status update of an order or a deposit that supplies metadata
\* replaces the whole stored document by the supplied one (keys the supplied
\* document lacks are gone), and one that supplies none leaves the stored
\* document as it was.
C20_MetadataReplacedOrKept ==
    [][\A st \in MetadataUpdateStatuses, md \in UpdateMetadata :
          /\ \A ref \in OrderRefs :
                (UpdateOrderStatus(ref, st, md) \/ RepositoryUpdateOrderStatus(ref, st, md))
                    => LET named(r) == r.order_ref = ref
                       IN MetadataReplacedOrKept(orders, orders', named, md)
          /\ \A ref \in DepositRefs :
                UpdateDepositStatus(ref, st, md)
                    => LET named(r) == r.deposit_ref = ref
                       IN MetadataReplacedOrKept(deposits, deposits', named, md)]_vars

----------------------------------------------------------------------------
(* The users table under upserts *)

WAIDs == {"628111", "628222"}

\* The profiles the transport hands over; a nil pointer is an absent field.
UserProfiles ==
    [WAID : WAIDs, WAJID : {Nil, Some("628111@s.whatsapp.net")},
     DisplayName : {Nil, Some("Budi")}, PhoneNumber : {Nil},
     LanguagePreference : {Nil, Some("en-US")},
     Timezone : {Nil, Some("Asia/Makassar")}]

NextUsers ==
    \/ \E profile \in UserProfiles : UpsertUserByWA(profile)
    \/ \E profile \in UserProfiles : RepositoryUpsertUserByWA(profile)

SpecUsers == Init /\ [][NextUsers]_vars

\* C21: after any sequence of UpsertUserByWA calls there is exactly one user
\* row per messenger id that was upserted, and the internal id returned for a
\* messenger id is the same on every call, whatever candidate id the call
\* generated.
C21_OneRowAndOneIdPerWAID ==
    /\ \A wa \in {p[1] : p \in returnedIds} :
           Cardinality({r \in userRows : r.wa_id = wa}) = 1
    /\ \A r \in userRows : <<r.wa_id, r.id>> \in returnedIds
    /\ \A p, q \in returnedIds : p[1] = q[1] => p[2] = q[2]

\* A messenger id was upserted again: the call generated a candidate id
\* other than the id it returned.
C21_Witness ==
    /\ userOp.op \in {"UpsertUserByWA", "RepositoryUpsertUserByWA"}
    /\ nextId >= 2
    /\ userOp.user.id < nextId
    /\ Cardinality(userRows) = 1

\* C29: an UpsertUserByWA call for an existing user that supplies neither a
\* language preference nor a timezone leaves the stored language preference
\* and timezone of that user as they were.
C29_AbsentPreferencesKept ==
    [][\A profile \in UserProfiles :
          ((UpsertUserByWA(profile) \/ RepositoryUpsertUserByWA(profile))
           /\ profile.LanguagePreference = Nil /\ profile.Timezone = Nil)
              => \A r \in userRows :
                     r.wa_id = profile.WAID
                         => \E q \in userRows' :
                                /\ q.wa_id = r.wa_id
                                /\ q.language_preference = r.language_preference
                                /\ q.timezone = r.timezone]_vars

----------------------------------------------------------------------------
(* The rotator under transient and other errors *)

\* The keys whose cooldown differs from what it was when the invocation began.
CooledSinceStart ==
    {k.id : k \in {r \in api_keys : \E o \in inv.poolAtStart :
                                       o.id = r.id /\ o.cooldown_until # r.cooldown_until}}

\* Only a quota error of fn cools a key down during an invocation.
OnlyQuotaCools ==
    \A id \in CooledSinceStart :
        \E j \in DOMAIN inv.log : inv.log[j].key = id /\ inv.log[j].outcome = "quota"

\* C22: during invoke a transient error of fn makes the rotator go on with
\* the next credential without setting a cooldown, and an error that is
\* neither quota nor transient ends invoke with that error at once: fn is
\* called with no further credential and no credential is cooled.
C22_TransientContinuesOtherReturns ==
    (inv.pc # "idle") =>
        /\ OnlyQuotaCools
        /\ \A j \in DOMAIN inv.log :
               inv.log[j].outcome = "other" =>
                   /\ j = Len(inv.log)
                   /\ inv.pc # "calling"
                   /\ (inv.pc = "done" => inv.result = "other")

----------------------------------------------------------------------------
(* The amount re-ranking under arbitrary match lists *)

\* The items of the match lists: three at one price with nominals below, at
\* and above 10000, one priced below its nominal, one without a nominal.
MatchPool ==
    {PriceListItem("A", "Item A", "", "", "5000", 7000, "available"),
     PriceListItem("B", "Item B", "", "", "10000", 7000, "available"),
     PriceListItem("C", "Item C", "", "", "10.000", 9500, "available"),
     PriceListItem("D", "Item D", "", "", "", 10000, "available"),
     PriceListItem("E", "Item E", "", "", "14000", 7000, "available")}

MatchLists ==
    UNION {{c \in [1..n -> MatchPool] : \A i, j \in 1..n : i # j => c[i] # c[j]} :
              n \in 0..MaxMatches}

MatchAmounts == {0, 7000, 10000}

CallRefineMatchesByAmount(items, amount) ==
    /\ catalogCall.pc = "idle"
    /\ catalogCall' = [pc |-> "returned", fn |-> "refineMatchesByAmount",
                       args |-> [items |-> items, amount |-> amount],
                       result |-> refineMatchesByAmount(items, amount)]
    /\ UNCHANGED outsideCatalog

NextRefine ==
    \/ \E items \in MatchLists, amount \in MatchAmounts :
          CallRefineMatchesByAmount(items, amount)
    \/ ReturnCall

SpecRefine == Init /\ [][NextRefine]_vars

\* The place of an item in a list of distinct items.
PlaceIn(list, item) == CHOOSE k \in 1..Len(list) : list[k] = item

IsPermutation(list, of) ==
    /\ Len(list) = Len(of)
    /\ \A k \in 1..Len(of) : \E i \in 1..Len(list) : list[i] = of[k]

PriceDistance(item, amount) ==
    IF item.Price >= amount THEN item.Price - amount ELSE amount - item.Price

NominalDistance(item, amount) ==
    LET nominal == parseNominalAmount(item.Nominal)
    IN IF nominal >= amount THEN nominal - amount ELSE amount - nominal

\* C23 as stated: with a positive amount the matches are re-ranked by
\* |price - amount|, then |nominal - amount|, then price, remaining ties in
\* their previous order; so among items of equal price the one whose nominal
\* is closest to the amount comes first, and an item whose price equals the
\* amount is never behind an item whose price differs from it.
C23_RankedByPriceThenNominal ==
    (Returned("refineMatchesByAmount") /\ catalogCall.args.amount > 0) =>
        LET items == catalogCall.args.items
            amount == catalogCall.args.amount
            list == catalogCall.result
            key == [i \in 1..Len(list) |->
                       <<PriceDistance(list[i], amount), NominalDistance(list[i], amount),
                         list[i].Price>>]
        IN /\ IsPermutation(list, items)
           /\ \A i, j \in 1..Len(list) : i < j =>
                 \/ key[i][1] < key[j][1]
                 \/ key[i][1] = key[j][1] /\ key[i][2] < key[j][2]
                 \/ key[i][1] = key[j][1] /\ key[i][2] = key[j][2] /\ key[i][3] < key[j][3]
                 \/ key[i] = key[j] /\ PlaceIn(items, list[i]) < PlaceIn(items, list[j])
           /\ \A i, j \in 1..Len(list) :
                 (list[i].Price = list[j].Price /\ key[i][2] < key[j][2]) => i < j
           /\ \A i, j \in 1..Len(list) :
                 (list[i].Price = amount /\ list[j].Price # amount) => i < j

----------------------------------------------------------------------------
(* The signature headers of the webhook *)

\* A header value that is, case-insensitively, one of the expected digests.
IsExpectedDigest(value) ==
    ToLower(TrimSpace(value)) \in {usernameMD5, passwordMD5}

AnySignatureHeaderMatches(r) ==
    \/ IsExpectedDigest(r.xAtlSignature)
    \/ IsExpectedDigest(r.xAtlanticSignature)
    \/ IsExpectedDigest(r.xSignature)

\* C24: a POST without Basic credentials is authenticated when any one of
\* X-Atl-Signature, X-Atlantic-Signature, X-Signature equals,
\* case-insensitively, one of the expected digests; so a request with a
\* non-matching X-Atl-Signature and a matching X-Signature is accepted.
C24_AnySignatureHeaderAdmits ==
    (Served /\ exchange.req.basic = Nil /\ AnySignatureHeaderMatches(exchange.req))
        => exchange.resp.code # 401

----------------------------------------------------------------------------
(* The error kinds of the PPOB client *)

\* The upstream answered the request of the client call with an HTTP status.
UpstreamAnswered ==
    /\ atl.pc = "returned"
    /\ atl.sent # << >>
    /\ atl.args.reply.kind = "http"

\* The body text of the answer, lower case.
AnswerText == ToLowerText(atl.args.reply.body)

SaysInvalidCredential ==
    \/ Contains(AnswerText, "invalid credential")
    \/ Contains(AnswerText, "api key invalid")
    \/ Contains(AnswerText, "kredensial tidak valid")

SaysInsufficientBalance ==
    Contains(AnswerText, "saldo tidak cukup") \/ Contains(AnswerText, "insufficient balance")

SaysInvalidDepositMethod ==
    \/ Contains(AnswerText, "metode deposit non aktif")
    \/ Contains(AnswerText, "metode deposit tidak valid")

\* C25: every upstream response that is HTTP 401 or whose body text matches
\* an invalid-credential pattern comes back as the InvalidCredential error,
\* also under HTTP 200 with status = false in the envelope; and an
\* insufficient-balance response and an invalid-deposit-method response come
\* back as two distinguishable error kinds.
C25_RefusalsClassified ==
    UpstreamAnswered =>
        /\ (atl.args.reply.code = 401 \/ SaysInvalidCredential)
              => atl.err = ErrInvalidCredential
        /\ SaysInsufficientBalance => atl.err = ErrInsufficientBalance
        /\ SaysInvalidDepositMethod => atl.err \notin {ErrNil, ErrInsufficientBalance,
                                                       ErrInvalidCredential, "atlantic error"}

----------------------------------------------------------------------------
(* Retries of the idempotent reads *)

\* The upstream did not answer, or answered with a server error.
TransientReply(reply) ==
    reply.kind \in {"network", "timeout"} \/ (reply.kind = "http" /\ reply.code >= 500)

\* C26: an idempotent read of the PPOB client (here price_list) that fails
\* transiently is retried, up to 2 further attempts, before the failure is
\* returned to the caller: a transient failure comes back only after the
\* third request.
C26_TransientReadRetried ==
    (/\ atl.pc = "returned"
     /\ atl.op = "PriceList"
     /\ atl.sent # << >>
     /\ TransientReply(atl.args.reply)
     /\ atl.err # ErrNil)
        => Len(atl.sent) = 3

----------------------------------------------------------------------------
(* The status of a parsed price item, and normalising twice *)

AvailabilityStatuses == {"available", "processing", "unavailable", "unknown"}

\* C27: every price item parsed from an upstream price list has an
\* availability status in {available, processing, unavailable, unknown},
\* whatever status text or status code the provider sent, a missing or
\* unrecognised status included.
C27_StatusInAvailabilitySet ==
    ClientReturned("UnmarshalJSON") => atl.result[1] \in AvailabilityStatuses

\* C30: transaction status normalisation is idempotent: normalising the
\* result of normalizeTransactionStatus again gives the same result, for
\* every input string.
C30_NormalizeTwiceIsNormalizeOnce ==
    ClientReturned("NormalizeTransactionStatus") =>
        normalizeTransactionStatus(atl.result[1]) = atl.result[1]

\* Reached: a status in capitals and with white space around it was
\* normalised to a word other than itself that no list holds.
C30_Witness ==
    /\ ClientReturned("NormalizeTransactionStatus")
    /\ atl.args.status = " partial\t\n"
    /\ atl.result = Some("partial")

----------------------------------------------------------------------------
(* parseAmount on a number without a multiplier suffix *)

\* Where the first number of the text begins (0 without a digit) and how far
\* it goes: a run of digits, and a [.,] with a further run when one follows.
FirstDigitAt(text) ==
    IF ContainsAny(text, DigitChars)
    THEN CHOOSE i \in 1..Len(text) :
            Char(text, i) \in DigitChars /\ \A j \in 1..(i - 1) : Char(text, j) \notin DigitChars
    ELSE 0

FirstNumberLength(text) ==
    LET i == FirstDigitAt(text)
        run == RunLength(text, i, DigitChars)
        more == IF i + run <= Len(text) /\ Char(text, i + run) \in {".", ","}
                THEN RunLength(text, i + run + 1, DigitChars) ELSE 0
    IN IF more > 0 THEN run + 1 + more ELSE run

\* A recognised multiplier suffix follows the first number: after optional
\* blanks one of k, rb, ribu, jt, juta, m, and no letter right after it.
SuffixFollowsFirstNumber(text) ==
    LET after == FirstDigitAt(text) + FirstNumberLength(text)
        at == after + RunLength(text, after, SpaceChars)
    IN \E w \in {"k", "rb", "ribu", "jt", "juta", "m"} :
          /\ Slice(text, at, at + Len(w) - 1) = w
          /\ (at + Len(w) > Len(text) \/ Char(text, at + Len(w)) \notin LowerChars)

\* C28: when the text holds a number that no recognised multiplier suffix
\* follows, parseAmount returns the value of the first complete run of
\* digits of the text, grouping punctuation removed, and never a proper
\* prefix of that run, as for "10gb" or "5000x".
C28_FirstCompleteRun ==
    Returned("parseAmount") =>
        LET text == ToLowerText(TrimSpaceText(catalogCall.args.text))
            i == FirstDigitAt(text)
            number == Slice(text, i, i + FirstNumberLength(text) - 1)
        IN (i > 0 /\ ~SuffixFollowsFirstNumber(text))
              => catalogCall.result = [val |-> ParseInt(StripGrouping(number)),
                                       err |-> ErrNil]
====
